---- MODULE Spec2Model ----
(***************************************************************************)
(* Log Explorer (py-log-analyzer): format inference and parsing.           *)
(*                                                                         *)
(* The state is what the program keeps between calls: the module-level     *)
(* pattern catalog of inference/line_patterns.py, the last detection       *)
(* result, the last batch of parsed entries and the lines handed in.       *)
(* Input lines are drawn from a fixed set of representative strings; the   *)
(* regular expressions, str.strip, str.split, json.loads and csv.reader    *)
(* are modelled by their results on those strings.  Confidences are exact  *)
(* rationals <<numerator, denominator>> in lowest terms.                   *)
(***************************************************************************)
EXTENDS Integers, Sequences, FiniteSets, TLC

VARIABLES catalog, det, out, inp, ts, se, tui, sch

vars == <<catalog, det, out, inp, ts, se, tui, sch>>

\* ---- bounds
MaxLines == 3

MaxUnknownLines == 6

MaxParse == 3

MaxErrors == 6

MaxExtend == 2

MaxCsvLines == 4

MaxMatches == 2

MaxEntries == 3

MaxUpdates == 12

MaxRows == 12

MaxKeys == 5

MaxScroll == 20

None == "None"

\* ---- representative input lines

LineBlank == "   "

LineApacheCombined == "127.0.0.1 - frank [10/Oct/2000:13:55:36 -0700] \"GET /a.gif HTTP/1.0\" 200 2326 \"http://ref\" \"Mozilla\""

LineApacheCommon == "127.0.0.1 - frank [10/Oct/2000:13:55:36 -0700] \"GET /a.gif HTTP/1.0\" 200 2326"

LineApacheVhost == "127.0.0.1 - frank example.com [10/Oct/2000:13:55:36 -0700] \"GET /a.gif HTTP/1.0\" 200 2326"

LineWebBadTime == "10.0.0.1 - - [yesterday] \"GET /b HTTP/1.1\" 404 -"

LineNginxError == "2023/12/25 10:15:35 [error] 1234#0: *1 open() failed"

LineSyslog3164 == "<34>Oct 11 22:14:15 mymachine su: 'su root' failed"

LineSyslogNoPri == "Oct 11 22:14:15 mymachine su failed"

LinePython == "2023-07-27 14:30:00,123 [INFO] app - started"

LineBadLevel == "foo:bar:baz"

LineLevelOnly == "INFO:app:started"

LineJson == "{\"message\": \"hi\"}"

LineJsonScalar == "42"

LineJournal == "MESSAGE=hello"

LineLtsv == "host:web1\tstatus:200"

LineGarbage == "!!!"

LineCsvHeader == "name,age,city"

LineCsvAlice == "Alice,30,New York"

LineCsvBob == "Bob,25,London"

LineJsonTime == "{\"time\": \"2023/12/25 10:15:35\"}"

LineJsonBadTime == "{\"time\": \"yesterday\"}"



PatternName(p) ==
  CASE p = "PythonLogDetector/bracketed_format" -> "bracketed_format"
    [] p = "PythonLogDetector/simple_format" -> "simple_format"
    [] p = "PythonLogDetector/default_format" -> "default_format"
    [] p = "PythonLogDetector/bracket_in_format" -> "bracket_in_format"
    [] p = "PythonLogDetector/timestamped_simple_format" -> "timestamped_simple_format"
    [] p = "PythonLogDetector/simple_no_timestamp" -> "simple_no_timestamp"
    [] p = "BasicLogDetector/bracketed_format" -> "bracketed_format"
    [] p = "BasicLogDetector/colon_format" -> "colon_format"
    [] p = "BasicLogDetector/timestamp_level_pattern" -> "timestamp_level_pattern"
    [] p = "BasicLogDetector/timestamp_message_pattern" -> "timestamp_message_pattern"
    [] p = "BasicLogDetector/level_message_pattern" -> "level_message_pattern"
    [] p = "KeyValueDetector/key=value" -> "key=value"
    [] p = "KeyValueDetector/key: value" -> "key: value"
    [] p = "KeyValueDetector/key=\"value\"" -> "key=\"value\""
    [] p = "KeyValueDetector/key='value'" -> "key='value'"
    [] p = "KeyValueDetector/key: \"value\"" -> "key: \"value\""
    [] p = "SyslogDetector/RFC3164" -> "RFC3164"
    [] p = "SyslogDetector/RFC5424" -> "RFC5424"
    [] p = "ApacheDetector/common" -> "common"
    [] p = "ApacheDetector/combined" -> "combined"
    [] p = "ApacheDetector_EXTENDED/with_virtual_host" -> "with_virtual_host"
    [] p = "ApacheDetector_EXTENDED/with_response_time" -> "with_response_time"
    [] p = "ApacheDetector_EXTENDED/mod_jk" -> "mod_jk"
    [] p = "NginxDetector/access" -> "access"
    [] p = "NginxDetector/error" -> "error"
    [] p = "NginxDetector_ACCESS_ALT/with_request_time" -> "with_request_time"
    [] p = "NginxDetector_ACCESS_ALT/simplified_format" -> "simplified_format"
    [] p = "NginxDetector_ERROR_ALT/with_connection" -> "with_connection"
    [] p = "NginxDetector_ERROR_ALT/simplified_error_format" -> "simplified_error_format"
    [] p = "GenericWebLogDetector/ip_dash_dash_timestamp_request" -> "ip_dash_dash_timestamp_request"
    [] p = "GenericWebLogDetector/ip_timestamp_request" -> "ip_timestamp_request"
    [] p = "GenericWebLogDetector/timestamp_ip_request" -> "timestamp_ip_request"

InitialCatalog ==
  "PythonLogDetector" :> <<"PythonLogDetector/bracketed_format", "PythonLogDetector/simple_format", "PythonLogDetector/default_format", "PythonLogDetector/bracket_in_format", "PythonLogDetector/timestamped_simple_format", "PythonLogDetector/simple_no_timestamp">> @@
  "BasicLogDetector" :> <<"BasicLogDetector/bracketed_format", "BasicLogDetector/colon_format", "BasicLogDetector/timestamp_level_pattern", "BasicLogDetector/timestamp_message_pattern", "BasicLogDetector/level_message_pattern">> @@
  "KeyValueDetector" :> <<"KeyValueDetector/key=value", "KeyValueDetector/key: value", "KeyValueDetector/key=\"value\"", "KeyValueDetector/key='value'", "KeyValueDetector/key: \"value\"">> @@
  "SyslogDetector" :> <<"SyslogDetector/RFC3164", "SyslogDetector/RFC5424">> @@
  "ApacheDetector" :> <<"ApacheDetector/common", "ApacheDetector/combined">> @@
  "ApacheDetector_EXTENDED" :> <<"ApacheDetector_EXTENDED/with_virtual_host", "ApacheDetector_EXTENDED/with_response_time", "ApacheDetector_EXTENDED/mod_jk">> @@
  "NginxDetector" :> <<"NginxDetector/access", "NginxDetector/error">> @@
  "NginxDetector_ACCESS_ALT" :> <<"NginxDetector_ACCESS_ALT/with_request_time", "NginxDetector_ACCESS_ALT/simplified_format">> @@
  "NginxDetector_ERROR_ALT" :> <<"NginxDetector_ERROR_ALT/with_connection", "NginxDetector_ERROR_ALT/simplified_error_format">> @@
  "GenericWebLogDetector" :> <<"GenericWebLogDetector/ip_dash_dash_timestamp_request", "GenericWebLogDetector/ip_timestamp_request", "GenericWebLogDetector/timestamp_ip_request">>

PatternFieldNames(p) ==
  CASE p = "PythonLogDetector/bracketed_format" ->
        <<"timestamp", "level", "logger", "message">>
    [] p = "PythonLogDetector/simple_format" ->
        <<"timestamp", "level", "logger", "message">>
    [] p = "PythonLogDetector/default_format" ->
        <<"timestamp", "logger", "level", "message">>
    [] p = "PythonLogDetector/bracket_in_format" ->
        <<"timestamp", "level", "logger", "message">>
    [] p = "PythonLogDetector/timestamped_simple_format" ->
        <<"timestamp", "level", "logger", "message">>
    [] p = "PythonLogDetector/simple_no_timestamp" ->
        <<"level", "logger", "message">>
    [] p = "BasicLogDetector/bracketed_format" ->
        <<"timestamp", "level", "module", "message">>
    [] p = "BasicLogDetector/colon_format" ->
        <<"timestamp", "level", "module", "message">>
    [] p = "BasicLogDetector/timestamp_level_pattern" ->
        <<"timestamp", "level", "message">>
    [] p = "BasicLogDetector/timestamp_message_pattern" ->
        <<"timestamp", "message">>
    [] p = "BasicLogDetector/level_message_pattern" ->
        <<"level", "message">>
    [] p = "KeyValueDetector/key=value" -> << >>
    [] p = "KeyValueDetector/key: value" -> << >>
    [] p = "KeyValueDetector/key=\"value\"" -> << >>
    [] p = "KeyValueDetector/key='value'" -> << >>
    [] p = "KeyValueDetector/key: \"value\"" -> << >>
    [] p = "SyslogDetector/RFC3164" ->
        <<"priority", "timestamp", "hostname", "tag", "message">>
    [] p = "SyslogDetector/RFC5424" ->
        <<"priority", "version", "timestamp", "hostname", "app_name", "procid", "msgid", "structured_data", "message">>
    [] p = "ApacheDetector/common" ->
        <<"remote_host", "remote_logname", "remote_user", "timestamp", "request", "status", "bytes_sent">>
    [] p = "ApacheDetector/combined" ->
        <<"remote_host", "remote_logname", "remote_user", "timestamp", "request", "status", "bytes_sent", "referer", "user_agent">>
    [] p = "ApacheDetector_EXTENDED/with_virtual_host" ->
        <<"remote_host", "remote_logname", "remote_user", "virtual_host", "timestamp", "request", "status", "bytes_sent">>
    [] p = "ApacheDetector_EXTENDED/with_response_time" ->
        <<"remote_host", "remote_logname", "remote_user", "timestamp", "request", "status", "bytes_sent", "response_time">>
    [] p = "ApacheDetector_EXTENDED/mod_jk" ->
        <<"timestamp", "level", "message">>
    [] p = "NginxDetector/access" ->
        <<"remote_addr", "remote_logname", "remote_user", "time_local", "request", "status", "bytes_sent", "http_referer", "http_user_agent">>
    [] p = "NginxDetector/error" ->
        <<"timestamp", "level", "pid", "tid", "message">>
    [] p = "NginxDetector_ACCESS_ALT/with_request_time" ->
        <<"remote_addr", "remote_logname", "remote_user", "time_local", "request", "status", "bytes_sent", "http_referer", "http_user_agent", "request_time">>
    [] p = "NginxDetector_ACCESS_ALT/simplified_format" ->
        <<"remote_addr", "time_local", "request", "status", "bytes_sent">>
    [] p = "NginxDetector_ERROR_ALT/with_connection" ->
        <<"timestamp", "level", "pid", "tid", "connection", "message">>
    [] p = "NginxDetector_ERROR_ALT/simplified_error_format" ->
        <<"timestamp", "level", "message">>
    [] p = "GenericWebLogDetector/ip_dash_dash_timestamp_request" ->
        <<"remote_addr", "timestamp", "request", "status", "bytes_sent">>
    [] p = "GenericWebLogDetector/ip_timestamp_request" ->
        <<"remote_addr", "timestamp", "request", "status", "bytes_sent">>
    [] p = "GenericWebLogDetector/timestamp_ip_request" ->
        <<"timestamp", "remote_addr", "request", "status", "bytes_sent">>

MatchPairs ==
  { <<"PythonLogDetector/bracketed_format", LinePython>>,
    <<"PythonLogDetector/timestamped_simple_format", LineSyslog3164>>,
    <<"PythonLogDetector/simple_no_timestamp", LineBadLevel>>,
    <<"PythonLogDetector/simple_no_timestamp", LineLevelOnly>>,
    <<"PythonLogDetector/simple_no_timestamp", LineLtsv>>,
    <<"BasicLogDetector/timestamp_level_pattern", LineSyslog3164>>,
    <<"BasicLogDetector/timestamp_level_pattern", LineSyslogNoPri>>,
    <<"BasicLogDetector/timestamp_level_pattern", LinePython>>,
    <<"BasicLogDetector/timestamp_message_pattern", LineNginxError>>,
    <<"BasicLogDetector/timestamp_message_pattern", LineSyslog3164>>,
    <<"BasicLogDetector/timestamp_message_pattern", LineSyslogNoPri>>,
    <<"BasicLogDetector/timestamp_message_pattern", LinePython>>,
    <<"BasicLogDetector/level_message_pattern", LineBadLevel>>,
    <<"BasicLogDetector/level_message_pattern", LineLevelOnly>>,
    <<"BasicLogDetector/level_message_pattern", LineLtsv>>,
    <<"SyslogDetector/RFC3164", LineSyslog3164>>,
    <<"ApacheDetector/common", LineApacheCombined>>,
    <<"ApacheDetector/common", LineApacheCommon>>,
    <<"ApacheDetector/common", LineWebBadTime>>,
    <<"ApacheDetector/combined", LineApacheCombined>>,
    <<"ApacheDetector_EXTENDED/with_virtual_host", LineApacheVhost>>,
    <<"NginxDetector/access", LineApacheCombined>>,
    <<"NginxDetector/error", LineNginxError>>,
    <<"NginxDetector_ACCESS_ALT/simplified_format", LineWebBadTime>>,
    <<"NginxDetector_ERROR_ALT/with_connection", LineNginxError>>,
    <<"NginxDetector_ERROR_ALT/simplified_error_format", LineNginxError>>,
    <<"GenericWebLogDetector/ip_dash_dash_timestamp_request", LineWebBadTime>> }

MatchGroups(p, line) ==
  CASE p = "PythonLogDetector/bracketed_format" /\ line = LinePython ->
        <<"2023-07-27 14:30:00,123", "INFO", "app", "started">>
    [] p = "PythonLogDetector/timestamped_simple_format" /\ line = LineSyslog3164 ->
        <<"<34>Oct 11 22:14:15", "mymachine", "su", "'su root' failed">>
    [] p = "PythonLogDetector/simple_no_timestamp" /\ line = LineBadLevel ->
        <<"foo", "bar", "baz">>
    [] p = "PythonLogDetector/simple_no_timestamp" /\ line = LineLevelOnly ->
        <<"INFO", "app", "started">>
    [] p = "PythonLogDetector/simple_no_timestamp" /\ line = LineLtsv ->
        <<"host", "web1\tstatus", "200">>
    [] p = "BasicLogDetector/timestamp_level_pattern" /\ line = LineSyslog3164 ->
        <<"<34>Oct 11 22:14:15", "mymachine", "su: 'su root' failed">>
    [] p = "BasicLogDetector/timestamp_level_pattern" /\ line = LineSyslogNoPri ->
        <<"Oct 11 22:14:15 mymachine", "su", "failed">>
    [] p = "BasicLogDetector/timestamp_level_pattern" /\ line = LinePython ->
        <<"2023-07-27 14:30:00,123 [INFO]", "app", "- started">>
    [] p = "BasicLogDetector/timestamp_message_pattern" /\ line = LineNginxError ->
        <<"2023/12/25 10:15:35 [error]", "1234#0: *1 open() failed">>
    [] p = "BasicLogDetector/timestamp_message_pattern" /\ line = LineSyslog3164 ->
        <<"<34>Oct 11 22:14:15 mymachine", "su: 'su root' failed">>
    [] p = "BasicLogDetector/timestamp_message_pattern" /\ line = LineSyslogNoPri ->
        <<"Oct 11 22:14:15 mymachine su", "failed">>
    [] p = "BasicLogDetector/timestamp_message_pattern" /\ line = LinePython ->
        <<"2023-07-27 14:30:00,123 [INFO] app -", "started">>
    [] p = "BasicLogDetector/level_message_pattern" /\ line = LineBadLevel ->
        <<"foo", "bar:baz">>
    [] p = "BasicLogDetector/level_message_pattern" /\ line = LineLevelOnly ->
        <<"INFO", "app:started">>
    [] p = "BasicLogDetector/level_message_pattern" /\ line = LineLtsv ->
        <<"host", "web1\tstatus:200">>
    [] p = "SyslogDetector/RFC3164" /\ line = LineSyslog3164 ->
        <<"34", "Oct 11 22:14:15", "mymachine", "su", "'su root' failed">>
    [] p = "ApacheDetector/common" /\ line = LineApacheCombined ->
        <<"127.0.0.1", "-", "frank", "10/Oct/2000:13:55:36 -0700", "GET /a.gif HTTP/1.0", "200", "2326">>
    [] p = "ApacheDetector/common" /\ line = LineApacheCommon ->
        <<"127.0.0.1", "-", "frank", "10/Oct/2000:13:55:36 -0700", "GET /a.gif HTTP/1.0", "200", "2326">>
    [] p = "ApacheDetector/common" /\ line = LineWebBadTime ->
        <<"10.0.0.1", "-", "-", "yesterday", "GET /b HTTP/1.1", "404", "-">>
    [] p = "ApacheDetector/combined" /\ line = LineApacheCombined ->
        <<"127.0.0.1", "-", "frank", "10/Oct/2000:13:55:36 -0700", "GET /a.gif HTTP/1.0", "200", "2326", "http://ref", "Mozilla">>
    [] p = "ApacheDetector_EXTENDED/with_virtual_host" /\ line = LineApacheVhost ->
        <<"127.0.0.1", "-", "frank", "example.com", "10/Oct/2000:13:55:36 -0700", "GET /a.gif HTTP/1.0", "200", "2326">>
    [] p = "NginxDetector/access" /\ line = LineApacheCombined ->
        <<"127.0.0.1", "-", "frank", "10/Oct/2000:13:55:36 -0700", "GET /a.gif HTTP/1.0", "200", "2326", "http://ref", "Mozilla">>
    [] p = "NginxDetector/error" /\ line = LineNginxError ->
        <<"2023/12/25 10:15:35", "error", "1234", "0", "*1 open() failed">>
    [] p = "NginxDetector_ACCESS_ALT/simplified_format" /\ line = LineWebBadTime ->
        <<"10.0.0.1", "yesterday", "GET /b HTTP/1.1", "404", "-">>
    [] p = "NginxDetector_ERROR_ALT/with_connection" /\ line = LineNginxError ->
        <<"2023/12/25 10:15:35", "error", "1234", "0", "1", "open() failed">>
    [] p = "NginxDetector_ERROR_ALT/simplified_error_format" /\ line = LineNginxError ->
        <<"2023/12/25 10:15:35", "error", "1234#0: *1 open() failed">>
    [] p = "GenericWebLogDetector/ip_dash_dash_timestamp_request" /\ line = LineWebBadTime ->
        <<"10.0.0.1", "yesterday", "GET /b HTTP/1.1", "404", "-">>
    [] OTHER -> << >>

JsonLoads(line) ==
  CASE line = LineJson -> [kind |-> "object", items |-> <<<<"message", "hi">>>>]
    [] line = LineJsonScalar -> [kind |-> "scalar", items |-> << >>]
    [] line = LineJsonTime -> [kind |-> "object", items |-> <<<<"time", "2023/12/25 10:15:35">>>>]
    [] line = LineJsonBadTime -> [kind |-> "object", items |-> <<<<"time", "yesterday">>>>]
    [] OTHER -> [kind |-> "invalid", items |-> << >>]

LtsvValidLines == {LineLtsv}

LtsvPairs(line) ==
  CASE line = LineLtsv -> <<<<"host", "web1">>, <<"status", "200">>>>
    [] OTHER -> << >>

LtsvFindall(line) ==
  CASE line = LineApacheCombined -> <<<<"127.0.0.1 - frank [10/Oct/2000", "13:55:36 -0700] \"GET /a.gif HTTP/1.0\" 200 2326 \"http://ref\" \"Mozilla\"">>>>
    [] line = LineApacheCommon -> <<<<"127.0.0.1 - frank [10/Oct/2000", "13:55:36 -0700] \"GET /a.gif HTTP/1.0\" 200 2326">>>>
    [] line = LineApacheVhost -> <<<<"127.0.0.1 - frank example.com [10/Oct/2000", "13:55:36 -0700] \"GET /a.gif HTTP/1.0\" 200 2326">>>>
    [] line = LineNginxError -> <<<<"2023/12/25 10", "15:35 [error] 1234#0: *1 open() failed">>>>
    [] line = LineSyslog3164 -> <<<<"<34>Oct 11 22", "14:15 mymachine su: 'su root' failed">>>>
    [] line = LineSyslogNoPri -> <<<<"Oct 11 22", "14:15 mymachine su failed">>>>
    [] line = LinePython -> <<<<"2023-07-27 14", "30:00,123 [INFO] app - started">>>>
    [] line = LineBadLevel -> <<<<"foo", "bar:baz">>>>
    [] line = LineLevelOnly -> <<<<"INFO", "app:started">>>>
    [] line = LineJson -> <<<<"{\"message\"", "\"hi\"}">>>>
    [] line = LineLtsv -> <<<<"host", "web1">>, <<"status", "200">>>>
    [] line = LineJsonTime -> <<<<"{\"time\"", "\"2023/12/25 10:15:35\"}">>>>
    [] line = LineJsonBadTime -> <<<<"{\"time\"", "\"yesterday\"}">>>>
    [] OTHER -> << >>

KeyValuePairs(line) ==
  CASE line = LineApacheCombined -> <<<<"2000", "13:55:36">>, <<"http", "//ref\"">>>>
    [] line = LineApacheCommon -> <<<<"2000", "13:55:36">>>>
    [] line = LineApacheVhost -> <<<<"2000", "13:55:36">>>>
    [] line = LineNginxError -> <<<<"10", "15:35">>, <<"0", "*1">>>>
    [] line = LineSyslog3164 -> <<<<"22", "14:15">>, <<"su", "'su">>>>
    [] line = LineSyslogNoPri -> <<<<"22", "14:15">>>>
    [] line = LinePython -> <<<<"14", "30:00">>>>
    [] line = LineBadLevel -> <<<<"foo", "bar:baz">>>>
    [] line = LineLevelOnly -> <<<<"INFO", "app:started">>>>
    [] line = LineJournal -> <<<<"MESSAGE", "hello">>>>
    [] line = LineLtsv -> <<<<"host", "web1">>, <<"status", "200">>>>
    [] line = LineJsonTime -> <<<<"10", "15:35\"}">>>>
    [] OTHER -> << >>

LinesWithEquals == {LineJournal}

SplitEquals(line) ==
  CASE line = LineJournal -> <<"MESSAGE", "hello">>
    [] OTHER -> <<line, "">>

JournalFieldPatternLines == {LineJournal}

SimplePatternGroups(line) ==
  CASE line = LineSyslogNoPri -> <<"Oct 11 22:14:15", "mymachine", "su failed">>
    [] OTHER -> << >>

JournalctlGroups(line) == << >>

Strip(s) ==
  CASE s = LineBlank -> ""
    [] s = " \"2023/12/25 10" -> "\"2023/12/25 10"
    [] s = " \"hi\"}" -> "\"hi\"}"
    [] s = " \"yesterday\"}" -> "\"yesterday\"}"
    [] s = " 'su root' failed" -> "'su root' failed"
    [] s = " *1 open() failed" -> "*1 open() failed"
    [] OTHER -> s

CsvReaderRow(line, d) ==
  CASE line = LineApacheCombined /\ d = ":" ->
        <<"127.0.0.1 - frank [10/Oct/2000", "13", "55", "36 -0700] \"GET /a.gif HTTP/1.0\" 200 2326 \"http", "//ref\" \"Mozilla\"">>
    [] line = LineApacheCombined /\ d = " " ->
        <<"127.0.0.1", "-", "frank", "[10/Oct/2000:13:55:36", "-0700]", "GET /a.gif HTTP/1.0", "200", "2326", "http://ref", "Mozilla">>
    [] line = LineApacheCommon /\ d = ":" ->
        <<"127.0.0.1 - frank [10/Oct/2000", "13", "55", "36 -0700] \"GET /a.gif HTTP/1.0\" 200 2326">>
    [] line = LineApacheCommon /\ d = " " ->
        <<"127.0.0.1", "-", "frank", "[10/Oct/2000:13:55:36", "-0700]", "GET /a.gif HTTP/1.0", "200", "2326">>
    [] line = LineApacheVhost /\ d = ":" ->
        <<"127.0.0.1 - frank example.com [10/Oct/2000", "13", "55", "36 -0700] \"GET /a.gif HTTP/1.0\" 200 2326">>
    [] line = LineApacheVhost /\ d = " " ->
        <<"127.0.0.1", "-", "frank", "example.com", "[10/Oct/2000:13:55:36", "-0700]", "GET /a.gif HTTP/1.0", "200", "2326">>
    [] line = LineWebBadTime /\ d = " " ->
        <<"10.0.0.1", "-", "-", "[yesterday]", "GET /b HTTP/1.1", "404", "-">>
    [] line = LineNginxError /\ d = ":" ->
        <<"2023/12/25 10", "15", "35 [error] 1234#0", " *1 open() failed">>
    [] line = LineNginxError /\ d = " " ->
        <<"2023/12/25", "10:15:35", "[error]", "1234#0:", "*1", "open()", "failed">>
    [] line = LineSyslog3164 /\ d = ":" ->
        <<"<34>Oct 11 22", "14", "15 mymachine su", " 'su root' failed">>
    [] line = LineSyslog3164 /\ d = " " ->
        <<"<34>Oct", "11", "22:14:15", "mymachine", "su:", "'su", "root'", "failed">>
    [] line = LineSyslogNoPri /\ d = ":" ->
        <<"Oct 11 22", "14", "15 mymachine su failed">>
    [] line = LineSyslogNoPri /\ d = " " ->
        <<"Oct", "11", "22:14:15", "mymachine", "su", "failed">>
    [] line = LinePython /\ d = "," ->
        <<"2023-07-27 14:30:00", "123 [INFO] app - started">>
    [] line = LinePython /\ d = ":" ->
        <<"2023-07-27 14", "30", "00,123 [INFO] app - started">>
    [] line = LinePython /\ d = " " ->
        <<"2023-07-27", "14:30:00,123", "[INFO]", "app", "-", "started">>
    [] line = LineBadLevel /\ d = ":" ->
        <<"foo", "bar", "baz">>
    [] line = LineLevelOnly /\ d = ":" ->
        <<"INFO", "app", "started">>
    [] line = LineJson /\ d = ":" ->
        <<"{\"message\"", " \"hi\"}">>
    [] line = LineJson /\ d = " " ->
        <<"{\"message\":", "hi}">>
    [] line = LineLtsv /\ d = "\t" ->
        <<"host:web1", "status:200">>
    [] line = LineLtsv /\ d = ":" ->
        <<"host", "web1\tstatus", "200">>
    [] line = LineCsvHeader /\ d = "," ->
        <<"name", "age", "city">>
    [] line = LineCsvAlice /\ d = "," ->
        <<"Alice", "30", "New York">>
    [] line = LineCsvAlice /\ d = " " ->
        <<"Alice,30,New", "York">>
    [] line = LineCsvBob /\ d = "," ->
        <<"Bob", "25", "London">>
    [] line = LineJsonTime /\ d = ":" ->
        <<"{\"time\"", " \"2023/12/25 10", "15", "35\"}">>
    [] line = LineJsonTime /\ d = " " ->
        <<"{\"time\":", "2023/12/25 10:15:35}">>
    [] line = LineJsonBadTime /\ d = ":" ->
        <<"{\"time\"", " \"yesterday\"}">>
    [] line = LineJsonBadTime /\ d = " " ->
        <<"{\"time\":", "yesterday}">>
    [] OTHER -> <<line>>

CsvSample(header, line, d) ==
  CASE header = LineApacheCombined /\ line = LinePython /\ d = "," ->
        "2023-07-27 14:30:00,['123 [INFO] app - started']"
    [] header = LineApacheCombined /\ line = LineLtsv /\ d = "\t" ->
        "host:web1\t['status:200']"
    [] header = LineApacheCombined /\ line = LineCsvHeader /\ d = "," ->
        "name,['age', 'city']"
    [] header = LineApacheCombined /\ line = LineCsvAlice /\ d = "," ->
        "Alice,['30', 'New York']"
    [] header = LineApacheCombined /\ line = LineCsvBob /\ d = "," ->
        "Bob,['25', 'London']"
    [] header = LineApacheCommon /\ line = LinePython /\ d = "," ->
        "2023-07-27 14:30:00,['123 [INFO] app - started']"
    [] header = LineApacheCommon /\ line = LineLtsv /\ d = "\t" ->
        "host:web1\t['status:200']"
    [] header = LineApacheCommon /\ line = LineCsvHeader /\ d = "," ->
        "name,['age', 'city']"
    [] header = LineApacheCommon /\ line = LineCsvAlice /\ d = "," ->
        "Alice,['30', 'New York']"
    [] header = LineApacheCommon /\ line = LineCsvBob /\ d = "," ->
        "Bob,['25', 'London']"
    [] header = LineApacheVhost /\ line = LinePython /\ d = "," ->
        "2023-07-27 14:30:00,['123 [INFO] app - started']"
    [] header = LineApacheVhost /\ line = LineLtsv /\ d = "\t" ->
        "host:web1\t['status:200']"
    [] header = LineApacheVhost /\ line = LineCsvHeader /\ d = "," ->
        "name,['age', 'city']"
    [] header = LineApacheVhost /\ line = LineCsvAlice /\ d = "," ->
        "Alice,['30', 'New York']"
    [] header = LineApacheVhost /\ line = LineCsvBob /\ d = "," ->
        "Bob,['25', 'London']"
    [] header = LineWebBadTime /\ line = LinePython /\ d = "," ->
        "2023-07-27 14:30:00,['123 [INFO] app - started']"
    [] header = LineWebBadTime /\ line = LineLtsv /\ d = "\t" ->
        "host:web1\t['status:200']"
    [] header = LineWebBadTime /\ line = LineCsvHeader /\ d = "," ->
        "name,['age', 'city']"
    [] header = LineWebBadTime /\ line = LineCsvAlice /\ d = "," ->
        "Alice,['30', 'New York']"
    [] header = LineWebBadTime /\ line = LineCsvBob /\ d = "," ->
        "Bob,['25', 'London']"
    [] header = LineNginxError /\ line = LinePython /\ d = "," ->
        "2023-07-27 14:30:00,['123 [INFO] app - started']"
    [] header = LineNginxError /\ line = LineLtsv /\ d = "\t" ->
        "host:web1\t['status:200']"
    [] header = LineNginxError /\ line = LineCsvHeader /\ d = "," ->
        "name,['age', 'city']"
    [] header = LineNginxError /\ line = LineCsvAlice /\ d = "," ->
        "Alice,['30', 'New York']"
    [] header = LineNginxError /\ line = LineCsvBob /\ d = "," ->
        "Bob,['25', 'London']"
    [] header = LineSyslog3164 /\ line = LinePython /\ d = "," ->
        "2023-07-27 14:30:00,['123 [INFO] app - started']"
    [] header = LineSyslog3164 /\ line = LineLtsv /\ d = "\t" ->
        "host:web1\t['status:200']"
    [] header = LineSyslog3164 /\ line = LineCsvHeader /\ d = "," ->
        "name,['age', 'city']"
    [] header = LineSyslog3164 /\ line = LineCsvAlice /\ d = "," ->
        "Alice,['30', 'New York']"
    [] header = LineSyslog3164 /\ line = LineCsvBob /\ d = "," ->
        "Bob,['25', 'London']"
    [] header = LineSyslogNoPri /\ line = LinePython /\ d = "," ->
        "2023-07-27 14:30:00,['123 [INFO] app - started']"
    [] header = LineSyslogNoPri /\ line = LineLtsv /\ d = "\t" ->
        "host:web1\t['status:200']"
    [] header = LineSyslogNoPri /\ line = LineCsvHeader /\ d = "," ->
        "name,['age', 'city']"
    [] header = LineSyslogNoPri /\ line = LineCsvAlice /\ d = "," ->
        "Alice,['30', 'New York']"
    [] header = LineSyslogNoPri /\ line = LineCsvBob /\ d = "," ->
        "Bob,['25', 'London']"
    [] header = LinePython /\ line = LineApacheCombined /\ d = "," ->
        "127.0.0.1 - frank [10/Oct/2000:13:55:36 -0700] \"GET /a.gif HTTP/1.0\" 200 2326 \"http://ref\" \"Mozilla\","
    [] header = LinePython /\ line = LineApacheCommon /\ d = "," ->
        "127.0.0.1 - frank [10/Oct/2000:13:55:36 -0700] \"GET /a.gif HTTP/1.0\" 200 2326,"
    [] header = LinePython /\ line = LineApacheVhost /\ d = "," ->
        "127.0.0.1 - frank example.com [10/Oct/2000:13:55:36 -0700] \"GET /a.gif HTTP/1.0\" 200 2326,"
    [] header = LinePython /\ line = LineWebBadTime /\ d = "," ->
        "10.0.0.1 - - [yesterday] \"GET /b HTTP/1.1\" 404 -,"
    [] header = LinePython /\ line = LineNginxError /\ d = "," ->
        "2023/12/25 10:15:35 [error] 1234#0: *1 open() failed,"
    [] header = LinePython /\ line = LineSyslog3164 /\ d = "," ->
        "<34>Oct 11 22:14:15 mymachine su: 'su root' failed,"
    [] header = LinePython /\ line = LineSyslogNoPri /\ d = "," ->
        "Oct 11 22:14:15 mymachine su failed,"
    [] header = LinePython /\ line = LineBadLevel /\ d = "," ->
        "foo:bar:baz,"
    [] header = LinePython /\ line = LineLevelOnly /\ d = "," ->
        "INFO:app:started,"
    [] header = LinePython /\ line = LineJson /\ d = "," ->
        "{\"message\": \"hi\"},"
    [] header = LinePython /\ line = LineJsonScalar /\ d = "," ->
        "42,"
    [] header = LinePython /\ line = LineJournal /\ d = "," ->
        "MESSAGE=hello,"
    [] header = LinePython /\ line = LineLtsv /\ d = "," ->
        "host:web1\tstatus:200,"
    [] header = LinePython /\ line = LineLtsv /\ d = "\t" ->
        "host:web1\t['status:200']"
    [] header = LinePython /\ line = LineGarbage /\ d = "," ->
        "!!!,"
    [] header = LinePython /\ line = LineCsvHeader /\ d = "," ->
        "name,age,['city']"
    [] header = LinePython /\ line = LineCsvAlice /\ d = "," ->
        "Alice,30,['New York']"
    [] header = LinePython /\ line = LineCsvBob /\ d = "," ->
        "Bob,25,['London']"
    [] header = LinePython /\ line = LineJsonTime /\ d = "," ->
        "{\"time\": \"2023/12/25 10:15:35\"},"
    [] header = LinePython /\ line = LineJsonBadTime /\ d = "," ->
        "{\"time\": \"yesterday\"},"
    [] header = LineBadLevel /\ line = LinePython /\ d = "," ->
        "2023-07-27 14:30:00,['123 [INFO] app - started']"
    [] header = LineBadLevel /\ line = LineLtsv /\ d = "\t" ->
        "host:web1\t['status:200']"
    [] header = LineBadLevel /\ line = LineCsvHeader /\ d = "," ->
        "name,['age', 'city']"
    [] header = LineBadLevel /\ line = LineCsvAlice /\ d = "," ->
        "Alice,['30', 'New York']"
    [] header = LineBadLevel /\ line = LineCsvBob /\ d = "," ->
        "Bob,['25', 'London']"
    [] header = LineLevelOnly /\ line = LinePython /\ d = "," ->
        "2023-07-27 14:30:00,['123 [INFO] app - started']"
    [] header = LineLevelOnly /\ line = LineLtsv /\ d = "\t" ->
        "host:web1\t['status:200']"
    [] header = LineLevelOnly /\ line = LineCsvHeader /\ d = "," ->
        "name,['age', 'city']"
    [] header = LineLevelOnly /\ line = LineCsvAlice /\ d = "," ->
        "Alice,['30', 'New York']"
    [] header = LineLevelOnly /\ line = LineCsvBob /\ d = "," ->
        "Bob,['25', 'London']"
    [] header = LineJson /\ line = LinePython /\ d = "," ->
        "2023-07-27 14:30:00,['123 [INFO] app - started']"
    [] header = LineJson /\ line = LineLtsv /\ d = "\t" ->
        "host:web1\t['status:200']"
    [] header = LineJson /\ line = LineCsvHeader /\ d = "," ->
        "name,['age', 'city']"
    [] header = LineJson /\ line = LineCsvAlice /\ d = "," ->
        "Alice,['30', 'New York']"
    [] header = LineJson /\ line = LineCsvBob /\ d = "," ->
        "Bob,['25', 'London']"
    [] header = LineJsonScalar /\ line = LinePython /\ d = "," ->
        "2023-07-27 14:30:00,['123 [INFO] app - started']"
    [] header = LineJsonScalar /\ line = LineLtsv /\ d = "\t" ->
        "host:web1\t['status:200']"
    [] header = LineJsonScalar /\ line = LineCsvHeader /\ d = "," ->
        "name,['age', 'city']"
    [] header = LineJsonScalar /\ line = LineCsvAlice /\ d = "," ->
        "Alice,['30', 'New York']"
    [] header = LineJsonScalar /\ line = LineCsvBob /\ d = "," ->
        "Bob,['25', 'London']"
    [] header = LineJournal /\ line = LinePython /\ d = "," ->
        "2023-07-27 14:30:00,['123 [INFO] app - started']"
    [] header = LineJournal /\ line = LineLtsv /\ d = "\t" ->
        "host:web1\t['status:200']"
    [] header = LineJournal /\ line = LineCsvHeader /\ d = "," ->
        "name,['age', 'city']"
    [] header = LineJournal /\ line = LineCsvAlice /\ d = "," ->
        "Alice,['30', 'New York']"
    [] header = LineJournal /\ line = LineCsvBob /\ d = "," ->
        "Bob,['25', 'London']"
    [] header = LineLtsv /\ line = LineApacheCombined /\ d = "\t" ->
        "127.0.0.1 - frank [10/Oct/2000:13:55:36 -0700] \"GET /a.gif HTTP/1.0\" 200 2326 \"http://ref\" \"Mozilla\"\t"
    [] header = LineLtsv /\ line = LineApacheCommon /\ d = "\t" ->
        "127.0.0.1 - frank [10/Oct/2000:13:55:36 -0700] \"GET /a.gif HTTP/1.0\" 200 2326\t"
    [] header = LineLtsv /\ line = LineApacheVhost /\ d = "\t" ->
        "127.0.0.1 - frank example.com [10/Oct/2000:13:55:36 -0700] \"GET /a.gif HTTP/1.0\" 200 2326\t"
    [] header = LineLtsv /\ line = LineWebBadTime /\ d = "\t" ->
        "10.0.0.1 - - [yesterday] \"GET /b HTTP/1.1\" 404 -\t"
    [] header = LineLtsv /\ line = LineNginxError /\ d = "\t" ->
        "2023/12/25 10:15:35 [error] 1234#0: *1 open() failed\t"
    [] header = LineLtsv /\ line = LineSyslog3164 /\ d = "\t" ->
        "<34>Oct 11 22:14:15 mymachine su: 'su root' failed\t"
    [] header = LineLtsv /\ line = LineSyslogNoPri /\ d = "\t" ->
        "Oct 11 22:14:15 mymachine su failed\t"
    [] header = LineLtsv /\ line = LinePython /\ d = "," ->
        "2023-07-27 14:30:00,['123 [INFO] app - started']"
    [] header = LineLtsv /\ line = LinePython /\ d = "\t" ->
        "2023-07-27 14:30:00,123 [INFO] app - started\t"
    [] header = LineLtsv /\ line = LineBadLevel /\ d = "\t" ->
        "foo:bar:baz\t"
    [] header = LineLtsv /\ line = LineLevelOnly /\ d = "\t" ->
        "INFO:app:started\t"
    [] header = LineLtsv /\ line = LineJson /\ d = "\t" ->
        "{\"message\": \"hi\"}\t"
    [] header = LineLtsv /\ line = LineJsonScalar /\ d = "\t" ->
        "42\t"
    [] header = LineLtsv /\ line = LineJournal /\ d = "\t" ->
        "MESSAGE=hello\t"
    [] header = LineLtsv /\ line = LineGarbage /\ d = "\t" ->
        "!!!\t"
    [] header = LineLtsv /\ line = LineCsvHeader /\ d = "," ->
        "name,['age', 'city']"
    [] header = LineLtsv /\ line = LineCsvHeader /\ d = "\t" ->
        "name,age,city\t"
    [] header = LineLtsv /\ line = LineCsvAlice /\ d = "," ->
        "Alice,['30', 'New York']"
    [] header = LineLtsv /\ line = LineCsvAlice /\ d = "\t" ->
        "Alice,30,New York\t"
    [] header = LineLtsv /\ line = LineCsvBob /\ d = "," ->
        "Bob,['25', 'London']"
    [] header = LineLtsv /\ line = LineCsvBob /\ d = "\t" ->
        "Bob,25,London\t"
    [] header = LineLtsv /\ line = LineJsonTime /\ d = "\t" ->
        "{\"time\": \"2023/12/25 10:15:35\"}\t"
    [] header = LineLtsv /\ line = LineJsonBadTime /\ d = "\t" ->
        "{\"time\": \"yesterday\"}\t"
    [] header = LineGarbage /\ line = LinePython /\ d = "," ->
        "2023-07-27 14:30:00,['123 [INFO] app - started']"
    [] header = LineGarbage /\ line = LineLtsv /\ d = "\t" ->
        "host:web1\t['status:200']"
    [] header = LineGarbage /\ line = LineCsvHeader /\ d = "," ->
        "name,['age', 'city']"
    [] header = LineGarbage /\ line = LineCsvAlice /\ d = "," ->
        "Alice,['30', 'New York']"
    [] header = LineGarbage /\ line = LineCsvBob /\ d = "," ->
        "Bob,['25', 'London']"
    [] header = LineCsvHeader /\ line = LineApacheCombined /\ d = "," ->
        "127.0.0.1 - frank [10/Oct/2000:13:55:36 -0700] \"GET /a.gif HTTP/1.0\" 200 2326 \"http://ref\" \"Mozilla\",,"
    [] header = LineCsvHeader /\ line = LineApacheCommon /\ d = "," ->
        "127.0.0.1 - frank [10/Oct/2000:13:55:36 -0700] \"GET /a.gif HTTP/1.0\" 200 2326,,"
    [] header = LineCsvHeader /\ line = LineApacheVhost /\ d = "," ->
        "127.0.0.1 - frank example.com [10/Oct/2000:13:55:36 -0700] \"GET /a.gif HTTP/1.0\" 200 2326,,"
    [] header = LineCsvHeader /\ line = LineWebBadTime /\ d = "," ->
        "10.0.0.1 - - [yesterday] \"GET /b HTTP/1.1\" 404 -,,"
    [] header = LineCsvHeader /\ line = LineNginxError /\ d = "," ->
        "2023/12/25 10:15:35 [error] 1234#0: *1 open() failed,,"
    [] header = LineCsvHeader /\ line = LineSyslog3164 /\ d = "," ->
        "<34>Oct 11 22:14:15 mymachine su: 'su root' failed,,"
    [] header = LineCsvHeader /\ line = LineSyslogNoPri /\ d = "," ->
        "Oct 11 22:14:15 mymachine su failed,,"
    [] header = LineCsvHeader /\ line = LinePython /\ d = "," ->
        "2023-07-27 14:30:00,123 [INFO] app - started,"
    [] header = LineCsvHeader /\ line = LineBadLevel /\ d = "," ->
        "foo:bar:baz,,"
    [] header = LineCsvHeader /\ line = LineLevelOnly /\ d = "," ->
        "INFO:app:started,,"
    [] header = LineCsvHeader /\ line = LineJson /\ d = "," ->
        "{\"message\": \"hi\"},,"
    [] header = LineCsvHeader /\ line = LineJsonScalar /\ d = "," ->
        "42,,"
    [] header = LineCsvHeader /\ line = LineJournal /\ d = "," ->
        "MESSAGE=hello,,"
    [] header = LineCsvHeader /\ line = LineLtsv /\ d = "," ->
        "host:web1\tstatus:200,,"
    [] header = LineCsvHeader /\ line = LineLtsv /\ d = "\t" ->
        "host:web1\t['status:200']"
    [] header = LineCsvHeader /\ line = LineGarbage /\ d = "," ->
        "!!!,,"
    [] header = LineCsvHeader /\ line = LineJsonTime /\ d = "," ->
        "{\"time\": \"2023/12/25 10:15:35\"},,"
    [] header = LineCsvHeader /\ line = LineJsonBadTime /\ d = "," ->
        "{\"time\": \"yesterday\"},,"
    [] header = LineCsvAlice /\ line = LineApacheCombined /\ d = "," ->
        "127.0.0.1 - frank [10/Oct/2000:13:55:36 -0700] \"GET /a.gif HTTP/1.0\" 200 2326 \"http://ref\" \"Mozilla\",,"
    [] header = LineCsvAlice /\ line = LineApacheCommon /\ d = "," ->
        "127.0.0.1 - frank [10/Oct/2000:13:55:36 -0700] \"GET /a.gif HTTP/1.0\" 200 2326,,"
    [] header = LineCsvAlice /\ line = LineApacheVhost /\ d = "," ->
        "127.0.0.1 - frank example.com [10/Oct/2000:13:55:36 -0700] \"GET /a.gif HTTP/1.0\" 200 2326,,"
    [] header = LineCsvAlice /\ line = LineWebBadTime /\ d = "," ->
        "10.0.0.1 - - [yesterday] \"GET /b HTTP/1.1\" 404 -,,"
    [] header = LineCsvAlice /\ line = LineNginxError /\ d = "," ->
        "2023/12/25 10:15:35 [error] 1234#0: *1 open() failed,,"
    [] header = LineCsvAlice /\ line = LineSyslog3164 /\ d = "," ->
        "<34>Oct 11 22:14:15 mymachine su: 'su root' failed,,"
    [] header = LineCsvAlice /\ line = LineSyslogNoPri /\ d = "," ->
        "Oct 11 22:14:15 mymachine su failed,,"
    [] header = LineCsvAlice /\ line = LinePython /\ d = "," ->
        "2023-07-27 14:30:00,123 [INFO] app - started,"
    [] header = LineCsvAlice /\ line = LineBadLevel /\ d = "," ->
        "foo:bar:baz,,"
    [] header = LineCsvAlice /\ line = LineLevelOnly /\ d = "," ->
        "INFO:app:started,,"
    [] header = LineCsvAlice /\ line = LineJson /\ d = "," ->
        "{\"message\": \"hi\"},,"
    [] header = LineCsvAlice /\ line = LineJsonScalar /\ d = "," ->
        "42,,"
    [] header = LineCsvAlice /\ line = LineJournal /\ d = "," ->
        "MESSAGE=hello,,"
    [] header = LineCsvAlice /\ line = LineLtsv /\ d = "," ->
        "host:web1\tstatus:200,,"
    [] header = LineCsvAlice /\ line = LineLtsv /\ d = "\t" ->
        "host:web1\t['status:200']"
    [] header = LineCsvAlice /\ line = LineGarbage /\ d = "," ->
        "!!!,,"
    [] header = LineCsvAlice /\ line = LineJsonTime /\ d = "," ->
        "{\"time\": \"2023/12/25 10:15:35\"},,"
    [] header = LineCsvAlice /\ line = LineJsonBadTime /\ d = "," ->
        "{\"time\": \"yesterday\"},,"
    [] header = LineCsvBob /\ line = LineApacheCombined /\ d = "," ->
        "127.0.0.1 - frank [10/Oct/2000:13:55:36 -0700] \"GET /a.gif HTTP/1.0\" 200 2326 \"http://ref\" \"Mozilla\",,"
    [] header = LineCsvBob /\ line = LineApacheCommon /\ d = "," ->
        "127.0.0.1 - frank [10/Oct/2000:13:55:36 -0700] \"GET /a.gif HTTP/1.0\" 200 2326,,"
    [] header = LineCsvBob /\ line = LineApacheVhost /\ d = "," ->
        "127.0.0.1 - frank example.com [10/Oct/2000:13:55:36 -0700] \"GET /a.gif HTTP/1.0\" 200 2326,,"
    [] header = LineCsvBob /\ line = LineWebBadTime /\ d = "," ->
        "10.0.0.1 - - [yesterday] \"GET /b HTTP/1.1\" 404 -,,"
    [] header = LineCsvBob /\ line = LineNginxError /\ d = "," ->
        "2023/12/25 10:15:35 [error] 1234#0: *1 open() failed,,"
    [] header = LineCsvBob /\ line = LineSyslog3164 /\ d = "," ->
        "<34>Oct 11 22:14:15 mymachine su: 'su root' failed,,"
    [] header = LineCsvBob /\ line = LineSyslogNoPri /\ d = "," ->
        "Oct 11 22:14:15 mymachine su failed,,"
    [] header = LineCsvBob /\ line = LinePython /\ d = "," ->
        "2023-07-27 14:30:00,123 [INFO] app - started,"
    [] header = LineCsvBob /\ line = LineBadLevel /\ d = "," ->
        "foo:bar:baz,,"
    [] header = LineCsvBob /\ line = LineLevelOnly /\ d = "," ->
        "INFO:app:started,,"
    [] header = LineCsvBob /\ line = LineJson /\ d = "," ->
        "{\"message\": \"hi\"},,"
    [] header = LineCsvBob /\ line = LineJsonScalar /\ d = "," ->
        "42,,"
    [] header = LineCsvBob /\ line = LineJournal /\ d = "," ->
        "MESSAGE=hello,,"
    [] header = LineCsvBob /\ line = LineLtsv /\ d = "," ->
        "host:web1\tstatus:200,,"
    [] header = LineCsvBob /\ line = LineLtsv /\ d = "\t" ->
        "host:web1\t['status:200']"
    [] header = LineCsvBob /\ line = LineGarbage /\ d = "," ->
        "!!!,,"
    [] header = LineCsvBob /\ line = LineJsonTime /\ d = "," ->
        "{\"time\": \"2023/12/25 10:15:35\"},,"
    [] header = LineCsvBob /\ line = LineJsonBadTime /\ d = "," ->
        "{\"time\": \"yesterday\"},,"
    [] header = LineJsonTime /\ line = LinePython /\ d = "," ->
        "2023-07-27 14:30:00,['123 [INFO] app - started']"
    [] header = LineJsonTime /\ line = LineLtsv /\ d = "\t" ->
        "host:web1\t['status:200']"
    [] header = LineJsonTime /\ line = LineCsvHeader /\ d = "," ->
        "name,['age', 'city']"
    [] header = LineJsonTime /\ line = LineCsvAlice /\ d = "," ->
        "Alice,['30', 'New York']"
    [] header = LineJsonTime /\ line = LineCsvBob /\ d = "," ->
        "Bob,['25', 'London']"
    [] header = LineJsonBadTime /\ line = LinePython /\ d = "," ->
        "2023-07-27 14:30:00,['123 [INFO] app - started']"
    [] header = LineJsonBadTime /\ line = LineLtsv /\ d = "\t" ->
        "host:web1\t['status:200']"
    [] header = LineJsonBadTime /\ line = LineCsvHeader /\ d = "," ->
        "name,['age', 'city']"
    [] header = LineJsonBadTime /\ line = LineCsvAlice /\ d = "," ->
        "Alice,['30', 'New York']"
    [] header = LineJsonBadTime /\ line = LineCsvBob /\ d = "," ->
        "Bob,['25', 'London']"
    [] OTHER -> line

ComplexTexts == {"11", "13", "14", "15", "200", "2326", "25", "30", "404", "55"}

CellLen(t) ==
  CASE t = " \"2023/12/25 10" -> 15
    [] t = " \"hi\"}" -> 6
    [] t = " \"yesterday\"}" -> 13
    [] t = " 'su root' failed" -> 17
    [] t = " *1 open() failed" -> 17
    [] t = "'su" -> 3
    [] t = "*1" -> 2
    [] t = "-" -> 1
    [] t = "-0700]" -> 6
    [] t = "//ref\" \"Mozilla\"" -> 16
    [] t = "00,123 [INFO] app - started" -> 27
    [] t = "10.0.0.1" -> 8
    [] t = "10:15:35" -> 8
    [] t = "11" -> 2
    [] t = "123 [INFO] app - started" -> 24
    [] t = "1234#0:" -> 7
    [] t = "127.0.0.1" -> 9
    [] t = "127.0.0.1 - frank [10/Oct/2000" -> 30
    [] t = "127.0.0.1 - frank example.com [10/Oct/2000" -> 42
    [] t = "13" -> 2
    [] t = "14" -> 2
    [] t = "14:30:00,123" -> 12
    [] t = "15" -> 2
    [] t = "15 mymachine su" -> 15
    [] t = "15 mymachine su failed" -> 22
    [] t = "200" -> 3
    [] t = "2023-07-27" -> 10
    [] t = "2023-07-27 14" -> 13
    [] t = "2023-07-27 14:30:00" -> 19
    [] t = "2023/12/25" -> 10
    [] t = "2023/12/25 10" -> 13
    [] t = "2023/12/25 10:15:35}" -> 20
    [] t = "22:14:15" -> 8
    [] t = "2326" -> 4
    [] t = "25" -> 2
    [] t = "30" -> 2
    [] t = "35 [error] 1234#0" -> 17
    [] t = "35\"}" -> 4
    [] t = "36 -0700] \"GET /a.gif HTTP/1.0\" 200 2326" -> 40
    [] t = "36 -0700] \"GET /a.gif HTTP/1.0\" 200 2326 \"http" -> 46
    [] t = "404" -> 3
    [] t = "55" -> 2
    [] t = "<34>Oct" -> 7
    [] t = "<34>Oct 11 22" -> 13
    [] t = "Alice" -> 5
    [] t = "Alice,30,New" -> 12
    [] t = "Bob" -> 3
    [] t = "GET /a.gif HTTP/1.0" -> 19
    [] t = "GET /b HTTP/1.1" -> 15
    [] t = "INFO" -> 4
    [] t = "London" -> 6
    [] t = "Mozilla" -> 7
    [] t = "New York" -> 8
    [] t = "Oct" -> 3
    [] t = "Oct 11 22" -> 9
    [] t = "York" -> 4
    [] t = "[10/Oct/2000:13:55:36" -> 21
    [] t = "[INFO]" -> 6
    [] t = "[error]" -> 7
    [] t = "[yesterday]" -> 11
    [] t = "age" -> 3
    [] t = "app" -> 3
    [] t = "bar" -> 3
    [] t = "baz" -> 3
    [] t = "city" -> 4
    [] t = "example.com" -> 11
    [] t = "failed" -> 6
    [] t = "foo" -> 3
    [] t = "frank" -> 5
    [] t = "hi}" -> 3
    [] t = "host" -> 4
    [] t = "host:web1" -> 9
    [] t = "http://ref" -> 10
    [] t = "mymachine" -> 9
    [] t = "name" -> 4
    [] t = "open()" -> 6
    [] t = "root'" -> 5
    [] t = "started" -> 7
    [] t = "status:200" -> 10
    [] t = "su" -> 2
    [] t = "su:" -> 3
    [] t = "web1\tstatus" -> 11
    [] t = "yesterday}" -> 10
    [] t = "{\"message\"" -> 10
    [] t = "{\"message\":" -> 11
    [] t = "{\"time\"" -> 7
    [] t = "{\"time\":" -> 8
    [] OTHER -> 0

SplitStrip(line, d) ==
  CASE line = LineApacheCombined /\ d = ":" ->
        <<"127.0.0.1 - frank [10/Oct/2000", "13", "55", "36 -0700] \"GET /a.gif HTTP/1.0\" 200 2326 \"http", "//ref\" \"Mozilla\"">>
    [] line = LineApacheCombined /\ d = " " ->
        <<"127.0.0.1", "-", "frank", "[10/Oct/2000:13:55:36", "-0700]", "\"GET", "/a.gif", "HTTP/1.0\"", "200", "2326", "\"http://ref\"", "\"Mozilla\"">>
    [] line = LineApacheCommon /\ d = ":" ->
        <<"127.0.0.1 - frank [10/Oct/2000", "13", "55", "36 -0700] \"GET /a.gif HTTP/1.0\" 200 2326">>
    [] line = LineApacheCommon /\ d = " " ->
        <<"127.0.0.1", "-", "frank", "[10/Oct/2000:13:55:36", "-0700]", "\"GET", "/a.gif", "HTTP/1.0\"", "200", "2326">>
    [] line = LineApacheVhost /\ d = ":" ->
        <<"127.0.0.1 - frank example.com [10/Oct/2000", "13", "55", "36 -0700] \"GET /a.gif HTTP/1.0\" 200 2326">>
    [] line = LineApacheVhost /\ d = " " ->
        <<"127.0.0.1", "-", "frank", "example.com", "[10/Oct/2000:13:55:36", "-0700]", "\"GET", "/a.gif", "HTTP/1.0\"", "200", "2326">>
    [] line = LineWebBadTime /\ d = " " ->
        <<"10.0.0.1", "-", "-", "[yesterday]", "\"GET", "/b", "HTTP/1.1\"", "404", "-">>
    [] line = LineNginxError /\ d = ":" ->
        <<"2023/12/25 10", "15", "35 [error] 1234#0", "*1 open() failed">>
    [] line = LineNginxError /\ d = " " ->
        <<"2023/12/25", "10:15:35", "[error]", "1234#0:", "*1", "open()", "failed">>
    [] line = LineSyslog3164 /\ d = ":" ->
        <<"<34>Oct 11 22", "14", "15 mymachine su", "'su root' failed">>
    [] line = LineSyslog3164 /\ d = " " ->
        <<"<34>Oct", "11", "22:14:15", "mymachine", "su:", "'su", "root'", "failed">>
    [] line = LineSyslogNoPri /\ d = ":" ->
        <<"Oct 11 22", "14", "15 mymachine su failed">>
    [] line = LineSyslogNoPri /\ d = " " ->
        <<"Oct", "11", "22:14:15", "mymachine", "su", "failed">>
    [] line = LinePython /\ d = ":" ->
        <<"2023-07-27 14", "30", "00,123 [INFO] app - started">>
    [] line = LinePython /\ d = "," ->
        <<"2023-07-27 14:30:00", "123 [INFO] app - started">>
    [] line = LinePython /\ d = " " ->
        <<"2023-07-27", "14:30:00,123", "[INFO]", "app", "-", "started">>
    [] line = LineBadLevel /\ d = ":" ->
        <<"foo", "bar", "baz">>
    [] line = LineLevelOnly /\ d = ":" ->
        <<"INFO", "app", "started">>
    [] line = LineJson /\ d = ":" ->
        <<"{\"message\"", "\"hi\"}">>
    [] line = LineJson /\ d = " " ->
        <<"{\"message\":", "\"hi\"}">>
    [] line = LineLtsv /\ d = ":" ->
        <<"host", "web1\tstatus", "200">>
    [] line = LineLtsv /\ d = "\t" ->
        <<"host:web1", "status:200">>
    [] line = LineCsvHeader /\ d = "," ->
        <<"name", "age", "city">>
    [] line = LineCsvAlice /\ d = "," ->
        <<"Alice", "30", "New York">>
    [] line = LineCsvAlice /\ d = " " ->
        <<"Alice,30,New", "York">>
    [] line = LineCsvBob /\ d = "," ->
        <<"Bob", "25", "London">>
    [] line = LineJsonTime /\ d = ":" ->
        <<"{\"time\"", "\"2023/12/25 10", "15", "35\"}">>
    [] line = LineJsonTime /\ d = " " ->
        <<"{\"time\":", "\"2023/12/25", "10:15:35\"}">>
    [] line = LineJsonBadTime /\ d = ":" ->
        <<"{\"time\"", "\"yesterday\"}">>
    [] line = LineJsonBadTime /\ d = " " ->
        <<"{\"time\":", "\"yesterday\"}">>
    [] OTHER -> <<line>>

DelimCount(line, d) ==
  CASE line = LineBlank /\ d = " " -> 3
    [] line = LineApacheCombined /\ d = ":" -> 4
    [] line = LineApacheCombined /\ d = " " -> 11
    [] line = LineApacheCommon /\ d = ":" -> 3
    [] line = LineApacheCommon /\ d = " " -> 9
    [] line = LineApacheVhost /\ d = ":" -> 3
    [] line = LineApacheVhost /\ d = " " -> 10
    [] line = LineWebBadTime /\ d = " " -> 8
    [] line = LineNginxError /\ d = ":" -> 3
    [] line = LineNginxError /\ d = " " -> 6
    [] line = LineSyslog3164 /\ d = ":" -> 3
    [] line = LineSyslog3164 /\ d = " " -> 7
    [] line = LineSyslogNoPri /\ d = ":" -> 2
    [] line = LineSyslogNoPri /\ d = " " -> 5
    [] line = LinePython /\ d = "," -> 1
    [] line = LinePython /\ d = ":" -> 2
    [] line = LinePython /\ d = " " -> 5
    [] line = LineBadLevel /\ d = ":" -> 2
    [] line = LineLevelOnly /\ d = ":" -> 2
    [] line = LineJson /\ d = ":" -> 1
    [] line = LineJson /\ d = " " -> 1
    [] line = LineLtsv /\ d = "\t" -> 1
    [] line = LineLtsv /\ d = ":" -> 2
    [] line = LineCsvHeader /\ d = "," -> 2
    [] line = LineCsvAlice /\ d = "," -> 2
    [] line = LineCsvAlice /\ d = " " -> 1
    [] line = LineCsvBob /\ d = "," -> 2
    [] line = LineJsonTime /\ d = ":" -> 3
    [] line = LineJsonTime /\ d = " " -> 2
    [] line = LineJsonBadTime /\ d = ":" -> 1
    [] line = LineJsonBadTime /\ d = " " -> 1
    [] OTHER -> 0

WebTimestampFieldNames ==
  { "request_time", "response_time", "time_local", "timestamp" }

ValidJournalKeys == {"MESSAGE"}

DelimiterConfidenceAbove ==
  { <<1, <<3>>>>, <<2, <<3>>>>, <<2, <<3, 3>>>>,
    <<3, <<4>>>>, <<3, <<5>>>>, <<3, <<2, 3, 4>>>>,
    <<3, <<2, 3, 5>>>>, <<3, <<2, 4, 3>>>>, <<3, <<2, 5, 3>>>>,
    <<3, <<3, 2, 4>>>>, <<3, <<3, 2, 5>>>>, <<3, <<3, 3, 3>>>>,
    <<3, <<3, 3, 4>>>>, <<3, <<3, 4, 2>>>>, <<3, <<3, 4, 3>>>>,
    <<3, <<3, 5, 2>>>>, <<3, <<3, 5, 5>>>>, <<3, <<4, 2, 3>>>>,
    <<3, <<4, 3, 2>>>>, <<3, <<4, 3, 3>>>>, <<3, <<5, 2, 3>>>>,
    <<3, <<5, 3, 2>>>>, <<3, <<5, 3, 5>>>>, <<3, <<5, 5, 3>>>>,
    <<4, <<2, 5>>>>, <<4, <<3, 3>>>>, <<4, <<5, 2>>>>,
    <<4, <<2, 3, 4>>>>, <<4, <<2, 3, 5>>>>, <<4, <<2, 4, 3>>>>,
    <<4, <<2, 5, 3>>>>, <<4, <<3, 2, 4>>>>, <<4, <<3, 2, 5>>>>,
    <<4, <<3, 3, 3>>>>, <<4, <<3, 3, 4>>>>, <<4, <<3, 4, 2>>>>,
    <<4, <<3, 4, 3>>>>, <<4, <<3, 5, 2>>>>, <<4, <<4, 2, 3>>>>,
    <<4, <<4, 3, 2>>>>, <<4, <<4, 3, 3>>>>, <<4, <<5, 2, 3>>>>,
    <<4, <<5, 3, 2>>>>, <<4, <<2, 3, 3, 3>>>>, <<4, <<2, 4, 4, 4>>>>,
    <<4, <<3, 2, 3, 3>>>>, <<4, <<3, 3, 2, 3>>>>, <<4, <<3, 3, 3, 2>>>>,
    <<4, <<3, 3, 3, 3>>>>, <<4, <<3, 3, 3, 5>>>>, <<4, <<3, 3, 5, 3>>>>,
    <<4, <<3, 5, 3, 3>>>>, <<4, <<4, 2, 4, 4>>>>, <<4, <<4, 4, 2, 4>>>>,
    <<4, <<4, 4, 4, 2>>>>, <<4, <<5, 3, 3, 3>>>> }

DelimiterConfidenceBelow ==
  { <<3, <<3, 5>>>>, <<3, <<4, 4>>>>, <<3, <<4, 5>>>>,
    <<3, <<5, 3>>>>, <<3, <<5, 4>>>>, <<3, <<5, 5>>>>,
    <<3, <<2, 3, 3>>>>, <<3, <<3, 2, 3>>>>, <<3, <<3, 3, 2>>>>,
    <<3, <<3, 3, 5>>>>, <<3, <<3, 4, 5>>>>, <<3, <<3, 5, 3>>>>,
    <<3, <<3, 5, 4>>>>, <<3, <<4, 3, 5>>>>, <<3, <<4, 5, 3>>>>,
    <<3, <<5, 3, 3>>>>, <<3, <<5, 3, 4>>>>, <<3, <<5, 4, 3>>>>,
    <<4, <<2, 3, 3>>>>, <<4, <<3, 2, 3>>>>, <<4, <<3, 3, 2>>>>,
    <<4, <<3, 4, 5>>>>, <<4, <<3, 5, 4>>>>, <<4, <<4, 3, 5>>>>,
    <<4, <<4, 5, 3>>>>, <<4, <<5, 3, 4>>>>, <<4, <<5, 4, 3>>>>,
    <<4, <<3, 4, 5, 5>>>>, <<4, <<3, 5, 4, 5>>>>, <<4, <<3, 5, 5, 4>>>>,
    <<4, <<3, 5, 5, 5>>>>, <<4, <<4, 3, 5, 5>>>>, <<4, <<4, 4, 4, 5>>>>,
    <<4, <<4, 4, 5, 4>>>>, <<4, <<4, 5, 3, 5>>>>, <<4, <<4, 5, 4, 4>>>>,
    <<4, <<4, 5, 5, 3>>>>, <<4, <<5, 3, 4, 5>>>>, <<4, <<5, 3, 5, 4>>>>,
    <<4, <<5, 3, 5, 5>>>>, <<4, <<5, 4, 3, 5>>>>, <<4, <<5, 4, 4, 4>>>>,
    <<4, <<5, 4, 5, 3>>>>, <<4, <<5, 5, 3, 4>>>>, <<4, <<5, 5, 3, 5>>>>,
    <<4, <<5, 5, 4, 3>>>>, <<4, <<5, 5, 5, 3>>>> }

SplitWhitespace(t) ==
  CASE t = "GET /a.gif HTTP/1.0" ->
        <<"GET", "/a.gif", "HTTP/1.0">>
    [] t = "GET /b HTTP/1.1" ->
        <<"GET", "/b", "HTTP/1.1">>
    [] OTHER -> <<t>>

WebBracketStrptime(t) ==
  CASE t = "00,123 [INFO] app - started" -> "ValueError"
    [] t = "10.0.0.1 - - [yesterday] \"GET /b HTTP/1.1\" 404 -" -> "ValueError"
    [] t = "123 [INFO] app - started" -> "ValueError"
    [] t = "127.0.0.1 - frank [10/Oct/2000" -> "ValueError"
    [] t = "127.0.0.1 - frank [10/Oct/2000:13:55:36 -0700] \"GET /a.gif HTTP/1.0\" 200 2326" -> "ValueError"
    [] t = "127.0.0.1 - frank [10/Oct/2000:13:55:36 -0700] \"GET /a.gif HTTP/1.0\" 200 2326 \"http://ref\" \"Mozilla\"" -> "ValueError"
    [] t = "127.0.0.1 - frank example.com [10/Oct/2000" -> "ValueError"
    [] t = "127.0.0.1 - frank example.com [10/Oct/2000:13:55:36 -0700] \"GET /a.gif HTTP/1.0\" 200 2326" -> "ValueError"
    [] t = "15:35 [error] 1234#0: *1 open() failed" -> "ValueError"
    [] t = "2023-07-27 14:30:00,123 [INFO]" -> "ValueError"
    [] t = "2023-07-27 14:30:00,123 [INFO] app -" -> "ValueError"
    [] t = "2023-07-27 14:30:00,123 [INFO] app - started" -> "ValueError"
    [] t = "2023/12/25 10:15:35 [error]" -> "ValueError"
    [] t = "2023/12/25 10:15:35 [error] 1234#0: *1 open() failed" -> "ValueError"
    [] t = "30:00,123 [INFO] app - started" -> "ValueError"
    [] t = "35 [error] 1234#0" -> "ValueError"
    [] t = "[10/Oct/2000:13:55:36" -> "ok"
    [] t = "[INFO]" -> "ValueError"
    [] t = "[error]" -> "ValueError"
    [] t = "[yesterday]" -> "ValueError"
    [] OTHER -> "no bracket"

Lower(t) ==
  CASE t = "Alice" -> "alice"
    [] t = "Bob" -> "bob"
    [] t = "GET" -> "get"
    [] t = "INFO" -> "info"
    [] t = "London" -> "london"
    [] t = "MESSAGE" -> "message"
    [] t = "Mozilla" -> "mozilla"
    [] t = "Oct" -> "oct"
    [] t = "York" -> "york"
    [] OTHER -> t

LevelTexts == {"INFO", "error"}

IntTexts == {"0", "1", "11", "1234", "13", "14", "15", "200", "2326", "25", "30", "34", "404", "42", "55"}

IntOf(t) ==
  CASE t = "0" -> 0
    [] t = "1" -> 1
    [] t = "11" -> 11
    [] t = "1234" -> 1234
    [] t = "13" -> 13
    [] t = "14" -> 14
    [] t = "15" -> 15
    [] t = "200" -> 200
    [] t = "2326" -> 2326
    [] t = "25" -> 25
    [] t = "30" -> 30
    [] t = "34" -> 34
    [] t = "404" -> 404
    [] t = "42" -> 42
    [] t = "55" -> 55
    [] OTHER -> 0

FloatTexts == {"0", "1", "11", "1234", "13", "14", "15", "200", "2326", "25", "30", "34", "404", "42", "55"}

BoolTexts == {"0", "1"}

TruthyTexts == {"1"}

TimestampTexts ==
  { "\"2023/12/25 10:15:35\"}",
    "10/Oct/2000:13:55:36 -0700",
    "127.0.0.1 - frank [10/Oct/2000:13:55:36 -0700] \"GET /a.gif HTTP/1.0\" 200 2326",
    "127.0.0.1 - frank [10/Oct/2000:13:55:36 -0700] \"GET /a.gif HTTP/1.0\" 200 2326 \"http://ref\" \"Mozilla\"",
    "127.0.0.1 - frank example.com [10/Oct/2000:13:55:36 -0700] \"GET /a.gif HTTP/1.0\" 200 2326",
    "2023-07-27 14:30:00,123",
    "2023-07-27 14:30:00,123 [INFO]",
    "2023-07-27 14:30:00,123 [INFO] app -",
    "2023-07-27 14:30:00,123 [INFO] app - started",
    "2023/12/25 10:15:35",
    "2023/12/25 10:15:35 [error]",
    "2023/12/25 10:15:35 [error] 1234#0: *1 open() failed",
    "2023/12/25 10:15:35}",
    "{\"time\": \"2023/12/25 10:15:35\"}" }

StrptimeNginxErrorTexts == {"2023/12/25 10:15:35"}

StrptimeSyslogTexts == {"Oct 11 22:14:15"}

WordsIn(t) ==
  CASE t = "SOURCE_REALTIME_TIMESTAMP" -> {"timestamp"}
    [] t = "__MONOTONIC_TIMESTAMP" -> {"timestamp"}
    [] t = "__REALTIME_TIMESTAMP" -> {"timestamp"}
    [] t = "timestamp" -> {"timestamp"}
    [] OTHER -> {}

\* ---- exact rationals for confidences
RECURSIVE Gcd(_, _)
Gcd(a, b) == IF b = 0 THEN a ELSE Gcd(b, a % b)

Rat(n, d) == LET g == Gcd(n, d) IN <<n \div g, d \div g>>

Zero == <<0, 1>>

One == <<1, 1>>

RAdd(x, y) == Rat(x[1] * y[2] + y[1] * x[2], x[2] * y[2])

RSub(x, y) == IF x[1] * y[2] >= y[1] * x[2]
              THEN Rat(x[1] * y[2] - y[1] * x[2], x[2] * y[2])
              ELSE Zero

RMul(x, y) == Rat(x[1] * y[1], x[2] * y[2])

RLe(x, y) == x[1] * y[2] <= y[1] * x[2]

RLt(x, y) == x[1] * y[2] < y[1] * x[2]

RMin(x, y) == IF RLe(x, y) THEN x ELSE y

\* Confidences are Python floats.  A value computed by one division is the
\* double nearest to the exact rational; a sum of rounded products can land
\* one step off.  A float is the exact rational with ulp, the sign of that
\* step, and floats compare by value, then by ulp.
FloatLt(x, xu, y, yu) == RLt(x, y) \/ (x = y /\ xu < yu)

FloatLe(x, xu, y, yu) == RLt(x, y) \/ (x = y /\ xu <= yu)

\* ---- sequences
\* a slice that forgets its upper end
SeqWhole(s, n) == s

\* s[:n]
SeqHead(s, n) == IF Len(s) <= n THEN s ELSE SubSeq(s, 1, n)

InSeq(x, s) == \E i \in 1..Len(s) : s[i] = x

AppendCapped(s, x, n) == IF Len(s) < n THEN Append(s, x) ELSE s

\* ---- log_core.LogFormat
LogFormat ==
  { "json", "csv", "ltsv", "key_value", "apache_common", "apache_combined",
    "apache_extended", "nginx_access", "nginx_error", "syslog",
    "systemd_journal", "python_log", "custom_delimited", "basic_log",
    "unknown" }

\* ---- log_core.FormatDetectionResult
NoMetadata == [k \in {} |-> None]

FormatDetectionResult(fmt, conf, schema, samples, meta) ==
  [ format_type |-> fmt, confidence |-> conf, ulp |-> 0, schema |-> schema,
    sample_lines |-> samples, metadata |-> meta ]

\* ---- log_core.FieldInfo: a schema is the dict's items in insertion order.
\* sample_values and timestamp_format are carried by no property here and
\* are left out of the record.
FieldInfo(name, data_type, is_timestamp) ==
  [ name |-> name, data_type |-> data_type, is_timestamp |-> is_timestamp,
    frequency |-> 0, confidence |-> Zero ]

FieldIndex(schema, name) ==
  IF \E i \in 1..Len(schema) : schema[i].name = name
  THEN CHOOSE i \in 1..Len(schema) : schema[i].name = name
  ELSE 0

InSchema(schema, name) == FieldIndex(schema, name) # 0

SchemaKeys(schema) == [i \in 1..Len(schema) |-> schema[i].name]

\* ---- TimestampDetector.detect_timestamp(text) is truthy
TsDetect(text) == text \in TimestampTexts

\* ---- utils.DataTypeInferrer.infer_string_type
infer_string_type(value) ==
  IF value = "" THEN "string"
  ELSE IF value \in BoolTexts THEN "boolean"
  ELSE IF value \in IntTexts THEN "integer"
  ELSE IF value \in FloatTexts THEN "float"
  ELSE IF TsDetect(value) THEN "timestamp"
  ELSE "string"

\* ---- utils.SchemaManager.update_field_info
\* the field at position i is counted once more and may become a timestamp
CountField(schema, i, value, is_timestamp_field) ==
  [schema EXCEPT ![i] =
     [@ EXCEPT !.frequency = @ + 1,
               !.is_timestamp =
                 IF (is_timestamp_field \/ ~@) /\ TsDetect(value)
                 THEN TRUE ELSE @]]

update_field_info(schema, field_name, value, data_type, is_timestamp_field) ==
  IF value = "" \/ value = "-" THEN schema
  ELSE IF InSchema(schema, field_name)
  THEN CountField(schema, FieldIndex(schema, field_name), value,
                  is_timestamp_field)
  ELSE CountField(Append(schema,
                    FieldInfo(field_name,
                              IF data_type = None
                              THEN infer_string_type(value) ELSE data_type,
                              is_timestamp_field)),
                  Len(schema) + 1, value, is_timestamp_field)

\* ---- base_detector.BaseFormatDetector.preprocess_lines
RECURSIVE PreprocessFrom(_, _, _)
PreprocessFrom(lines, i, max_lines) ==
  IF i > Len(lines) \/ i > max_lines THEN << >>
  ELSE IF Strip(lines[i]) # ""
       THEN <<Strip(lines[i])>> \o PreprocessFrom(lines, i + 1, max_lines)
       ELSE PreprocessFrom(lines, i + 1, max_lines)

preprocess_lines(lines, max_lines) == PreprocessFrom(lines, 1, max_lines)

\* a coverage that counts "all of no lines" as full coverage
calculate_line_coverage_vacuous(matches, total_lines) ==
  IF total_lines > 0 THEN Rat(matches, total_lines) ELSE One

\* ---- base_detector.BaseFormatDetector.calculate_line_coverage
calculate_line_coverage(matches, total_lines) ==
  IF total_lines > 0 THEN Rat(matches, total_lines) ELSE Zero


\* ---- pattern matching against the catalog's compiled expressions
Matches(p, line) == <<p, line>> \in MatchPairs

\* First pattern of the list that matches the line, 0 if none.
FirstMatch(plist, line) ==
  IF \E i \in 1..Len(plist) : Matches(plist[i], line)
  THEN CHOOSE i \in 1..Len(plist) :
         /\ Matches(plist[i], line)
         /\ \A j \in 1..(i - 1) : ~Matches(plist[j], line)
  ELSE 0

\* ---- utils.PatternMatcher._extract_schema_from_match
RECURSIVE ExtractFrom(_, _, _, _)
ExtractFrom(names, groups, i, schema) ==
  IF i > Len(names) THEN schema
  ELSE IF i <= Len(groups) /\ groups[i] # ""
       THEN ExtractFrom(names, groups, i + 1,
              update_field_info(schema, names[i], groups[i], None,
                names[i] \in {"timestamp", "time_local", "time_iso8601"}))
       ELSE ExtractFrom(names, groups, i + 1, schema)

extract_schema_from_match(p, line, schema) ==
  ExtractFrom(PatternFieldNames(p), MatchGroups(p, line), 1, schema)

\* ---- app_log_detectors: _find_matching_pattern with the level check.
\* checked is the pattern name whose first group must be a level word.
RECURSIVE FindFrom(_, _, _, _)
FindFrom(plist, line, checked, i) ==
  IF i > Len(plist) THEN 0
  ELSE IF Matches(plist[i], line)
          /\ ~(PatternName(plist[i]) = checked
               /\ MatchGroups(plist[i], line)[1] \notin LevelTexts)
       THEN i
       ELSE FindFrom(plist, line, checked, i + 1)

find_matching_pattern(plist, line, checked) == FindFrom(plist, line, checked, 1)

\* a line the pattern at position k accepted (k = 0: none did)
LogMatched(plist, line, k, acc) ==
  IF k = 0 THEN acc
  ELSE [ matches |-> acc.matches + 1,
         sample_lines |-> AppendCapped(acc.sample_lines, line, 5),
         schema |-> extract_schema_from_match(plist[k], line, acc.schema) ]

RECURSIVE LogScan(_, _, _, _, _)
LogScan(plist, checked, lines, i, acc) ==
  IF i > Len(lines) THEN acc
  ELSE LogScan(plist, checked, lines, i + 1,
         LogMatched(plist, lines[i],
                    find_matching_pattern(plist, lines[i], checked), acc))

LogResult(fmt, processed, r) ==
  FormatDetectionResult(fmt,
    calculate_line_coverage(r.matches, Len(processed)),
    r.schema, r.sample_lines,
    ("matches" :> r.matches) @@ ("total_lines" :> Len(processed)))

LogDetect(plist, checked, fmt, lines) ==
  LogResult(fmt, preprocess_lines(lines, 100),
    LogScan(plist, checked, preprocess_lines(lines, 100), 1,
            [matches |-> 0, sample_lines |-> << >>, schema |-> << >>]))

PythonLogDetector_detect(cat, lines) ==
  LogDetect(cat["PythonLogDetector"], "simple_no_timestamp", "python_log", lines)

BasicLogDetector_detect(cat, lines) ==
  LogDetect(cat["BasicLogDetector"], "level_message_pattern", "basic_log", lines)

\* ---- syslog_detectors.SyslogDetector
\* _try_match_line: the first matching pattern named RFC3164 or RFC5424.
RECURSIVE SyslogTryFrom(_, _, _)
SyslogTryFrom(plist, line, i) ==
  IF i > Len(plist) THEN 0
  ELSE IF Matches(plist[i], line)
          /\ PatternName(plist[i]) \in {"RFC3164", "RFC5424"}
       THEN i
       ELSE SyslogTryFrom(plist, line, i + 1)

GroupNamed(p, line, name) ==
  LET names == PatternFieldNames(p)
  IN IF \E i \in 1..Len(names) : names[i] = name
     THEN MatchGroups(p, line)[CHOOSE i \in 1..Len(names) : names[i] = name]
     ELSE ""

SyslogSchemaOrder(p) ==
  IF PatternName(p) = "RFC3164"
  THEN <<"priority", "timestamp", "hostname", "message", "tag">>
  ELSE <<"priority", "timestamp", "hostname", "message", "version",
         "app_name", "procid", "msgid", "structured_data">>

\* match.group(name) for each of the names
GroupsNamed(p, line, names) ==
  [i \in 1..Len(names) |-> GroupNamed(p, line, names[i])]

RECURSIVE SyslogSchemaFrom(_, _, _, _)
SyslogSchemaFrom(names, values, i, schema) ==
  IF i > Len(names) THEN schema
  ELSE SyslogSchemaFrom(names, values, i + 1,
         IF values[i] = "" THEN schema
         ELSE update_field_info(schema, names[i], values[i],
                IF names[i] \in {"priority", "version"}
                THEN "integer" ELSE None,
                names[i] = "timestamp"))

update_schema_from_match(p, line, schema) ==
  SyslogSchemaFrom(SyslogSchemaOrder(p),
                   GroupsNamed(p, line, SyslogSchemaOrder(p)), 1, schema)

\* a line the pattern at position k accepted (k = 0: none did)
SyslogMatched(plist, line, k, acc) ==
  IF k = 0 THEN acc
  ELSE [ rfc3164 |-> acc.rfc3164
                      + IF PatternName(plist[k]) = "RFC3164" THEN 1 ELSE 0,
         rfc5424 |-> acc.rfc5424
                      + IF PatternName(plist[k]) = "RFC3164" THEN 0 ELSE 1,
         sample_lines |-> Append(acc.sample_lines, line),
         schema |-> update_schema_from_match(plist[k], line, acc.schema) ]

RECURSIVE SyslogScan(_, _, _, _)
SyslogScan(plist, lines, i, acc) ==
  IF i > Len(lines) THEN acc
  ELSE SyslogScan(plist, lines, i + 1,
         SyslogMatched(plist, lines[i], SyslogTryFrom(plist, lines[i], 1),
                       acc))

SyslogResult(processed, r) ==
  FormatDetectionResult("syslog",
    calculate_line_coverage(r.rfc3164 + r.rfc5424, Len(processed)),
    r.schema, SeqHead(r.sample_lines, 5),
    ("rfc3164_matches" :> r.rfc3164) @@ ("rfc5424_matches" :> r.rfc5424)
    @@ ("detected_rfc" :> IF r.rfc3164 >= r.rfc5424
                          THEN "RFC3164" ELSE "RFC5424")
    @@ ("total_lines_processed" :> Len(processed)))

SyslogDetector_detect(cat, lines) ==
  SyslogResult(preprocess_lines(lines, 100),
    SyslogScan(cat["SyslogDetector"], preprocess_lines(lines, 100), 1,
               [rfc3164 |-> 0, rfc5424 |-> 0, sample_lines |-> << >>,
                schema |-> << >>]))

\* ---- web_log_detectors.WebLogDetectorMixin._update_field_schema
\* (the recogniser's own score, copied into a timestamp field's confidence,
\* is overwritten by the engine for the winning result and is not kept)
web_update_field_schema(schema, field_name, value) ==
  IF value = "" \/ value = "-" THEN schema
  ELSE IF InSchema(schema, field_name)
  THEN [schema EXCEPT ![FieldIndex(schema, field_name)].frequency = @ + 1]
  ELSE Append(schema,
         [ FieldInfo(field_name,
             IF field_name \in {"status", "bytes_sent", "pid", "tid",
                                "response_size"}
             THEN "integer"
             ELSE IF field_name \in {"request_time", "response_time"}
             THEN "float"
             ELSE infer_string_type(value),
             field_name \in WebTimestampFieldNames)
           EXCEPT !.frequency = 1 ])

RECURSIVE WebFieldsFrom(_, _, _, _)
WebFieldsFrom(names, groups, i, schema) ==
  IF i > Len(names) THEN schema
  ELSE WebFieldsFrom(names, groups, i + 1,
         IF i <= Len(groups) /\ groups[i] \notin {"-", ""}
         THEN web_update_field_schema(schema, names[i], groups[i])
         ELSE schema)

\* _try_pattern_match on a pattern known to match: the updated accumulator.
web_pattern_matched(line, p, acc) ==
  [acc EXCEPT !.sample_lines = AppendCapped(acc.sample_lines, line, 5),
              !.schema = WebFieldsFrom(PatternFieldNames(p),
                                       MatchGroups(p, line), 1, acc.schema)]

\* ---- WebLogDetectorMixin._calculate_format_confidence
calculate_format_confidence(matches, total_lines) ==
  LET base == calculate_line_coverage(matches, total_lines)
  IN IF matches > 0 /\ total_lines > 0 /\ 5 * matches > 4 * total_lines
     THEN RMin(RAdd(base, <<1, 10>>), One)
     ELSE RMin(base, One)

\* ---- WebLogDetectorMixin._create_empty_result
create_empty_result ==
  FormatDetectionResult("unknown", Zero, << >>, << >>,
                        "error" :> "No lines to process")

\* ---- web_log_detectors.ApacheDetector
\* the counter and the pattern _process_lines settles on for one line:
\* combined, then common, then the first extended pattern that matches
ApacheChoice(cat, line) ==
  IF Matches(cat["ApacheDetector"][2], line)
  THEN [counter |-> "combined", pattern |-> cat["ApacheDetector"][2]]
  ELSE IF Matches(cat["ApacheDetector"][1], line)
  THEN [counter |-> "common", pattern |-> cat["ApacheDetector"][1]]
  ELSE IF FirstMatch(cat["ApacheDetector_EXTENDED"], line) # 0
  THEN [ counter |-> "extended",
         pattern |-> cat["ApacheDetector_EXTENDED"][
                       FirstMatch(cat["ApacheDetector_EXTENDED"], line)] ]
  ELSE [counter |-> None, pattern |-> None]

\* the accumulator after a line with that choice
WebCounted(line, choice, acc) ==
  IF choice.counter = None THEN acc
  ELSE [web_pattern_matched(line, choice.pattern, acc)
          EXCEPT ![choice.counter] = @ + 1]

RECURSIVE ApacheScan(_, _, _, _)
ApacheScan(cat, lines, i, acc) ==
  IF i > Len(lines) THEN acc
  ELSE ApacheScan(cat, lines, i + 1,
         WebCounted(lines[i], ApacheChoice(cat, lines[i]), acc))

Max2(a, b) == IF a >= b THEN a ELSE b

determine_apache_format(common, combined, extended) ==
  IF combined > Max2(common, extended) THEN "apache_combined"
  ELSE IF extended > Max2(common, combined) THEN "apache_extended"
  ELSE "apache_common"

ApacheResult(processed, r) ==
  IF processed = << >> THEN create_empty_result
  ELSE FormatDetectionResult(
         determine_apache_format(r.common, r.combined, r.extended),
         calculate_format_confidence(r.common + r.combined + r.extended,
                                     Len(processed)),
         r.schema, SeqHead(r.sample_lines, 5),
         ("common_matches" :> r.common)
         @@ ("combined_matches" :> r.combined)
         @@ ("extended_matches" :> r.extended)
         @@ ("total_processed_lines" :> Len(processed)))

ApacheDetector_detect(cat, lines) ==
  ApacheResult(preprocess_lines(lines, 100),
    ApacheScan(cat, preprocess_lines(lines, 100), 1,
               [common |-> 0, combined |-> 0, extended |-> 0,
                sample_lines |-> << >>, schema |-> << >>]))

\* ---- web_log_detectors.NginxDetector
NginxAccessPatterns(cat) ==
  <<cat["NginxDetector"][1]>> \o cat["NginxDetector_ACCESS_ALT"]

NginxErrorPatterns(cat) ==
  <<cat["NginxDetector"][2]>> \o cat["NginxDetector_ERROR_ALT"]

\* the counter and the pattern for one line: the access patterns first,
\* then the error patterns
NginxChoice(cat, line) ==
  IF FirstMatch(NginxAccessPatterns(cat), line) # 0
  THEN [ counter |-> "access",
         pattern |-> NginxAccessPatterns(cat)[
                       FirstMatch(NginxAccessPatterns(cat), line)] ]
  ELSE IF FirstMatch(NginxErrorPatterns(cat), line) # 0
  THEN [ counter |-> "error",
         pattern |-> NginxErrorPatterns(cat)[
                       FirstMatch(NginxErrorPatterns(cat), line)] ]
  ELSE [counter |-> None, pattern |-> None]

RECURSIVE NginxScan(_, _, _, _)
NginxScan(cat, lines, i, acc) ==
  IF i > Len(lines) THEN acc
  ELSE NginxScan(cat, lines, i + 1,
         WebCounted(lines[i], NginxChoice(cat, lines[i]), acc))

NginxResult(processed, r) ==
  IF processed = << >> THEN create_empty_result
  ELSE FormatDetectionResult(
         IF r.access >= r.error THEN "nginx_access" ELSE "nginx_error",
         calculate_format_confidence(r.access + r.error, Len(processed)),
         r.schema, SeqHead(r.sample_lines, 5),
         ("access_matches" :> r.access) @@ ("error_matches" :> r.error)
         @@ ("total_processed_lines" :> Len(processed)))

NginxDetector_detect(cat, lines) ==
  NginxResult(preprocess_lines(lines, 100),
    NginxScan(cat, preprocess_lines(lines, 100), 1,
              [access |-> 0, error |-> 0, sample_lines |-> << >>,
               schema |-> << >>]))

\* ---- web_log_detectors.GenericWebLogDetector
GenericChoice(plist, line) ==
  IF FirstMatch(plist, line) # 0
  THEN [counter |-> "matches", pattern |-> plist[FirstMatch(plist, line)]]
  ELSE [counter |-> None, pattern |-> None]

RECURSIVE GenericScan(_, _, _, _)
GenericScan(plist, lines, i, acc) ==
  IF i > Len(lines) THEN acc
  ELSE GenericScan(plist, lines, i + 1,
         WebCounted(lines[i], GenericChoice(plist, lines[i]), acc))

GenericResult(processed, r) ==
  IF processed = << >> THEN create_empty_result
  ELSE FormatDetectionResult("basic_log",
         calculate_format_confidence(r.matches, Len(processed)),
         r.schema, SeqHead(r.sample_lines, 5),
         ("generic_matches" :> r.matches)
         @@ ("total_processed_lines" :> Len(processed)))

GenericWebLogDetector_detect(cat, lines) ==
  GenericResult(preprocess_lines(lines, 100),
    GenericScan(cat["GenericWebLogDetector"], preprocess_lines(lines, 100), 1,
                [matches |-> 0, sample_lines |-> << >>, schema |-> << >>]))

\* ---- dict of string pairs in insertion order
DictSet(d, k, v) ==
  IF \E i \in 1..Len(d) : d[i][1] = k
  THEN [i \in 1..Len(d) |-> IF d[i][1] = k THEN <<k, v>> ELSE d[i]]
  ELSE Append(d, <<k, v>>)

RECURSIVE PairsToSchema(_, _, _)
PairsToSchema(pairs, i, schema) ==
  IF i > Len(pairs) THEN schema
  ELSE PairsToSchema(pairs, i + 1,
         IF Strip(pairs[i][1]) = "" THEN schema
         ELSE update_field_info(schema, Strip(pairs[i][1]), pairs[i][2],
                                None, FALSE))

\* ---- structured_detectors.JSONDetector
RECURSIVE JsonScan(_, _, _)
JsonScan(lines, i, acc) ==
  IF i > Len(lines) \/ acc.json_count >= 50 THEN acc
  ELSE JsonScan(lines, i + 1,
         IF JsonLoads(lines[i]).kind = "invalid" THEN acc
         ELSE [ json_count |-> acc.json_count + 1,
                samples |-> Append(acc.samples, lines[i]),
                schema |-> IF JsonLoads(lines[i]).kind = "object"
                           THEN PairsToSchema(JsonLoads(lines[i]).items, 1,
                                              acc.schema)
                           ELSE acc.schema ])

JsonResult(processed, r) ==
  IF processed = << >>
  THEN FormatDetectionResult("json", Zero, << >>, << >>, NoMetadata)
  ELSE FormatDetectionResult("json",
         calculate_line_coverage(r.json_count, Len(processed)),
         r.schema, SeqHead(r.samples, 5), "total_json_lines" :> r.json_count)

JSONDetector_detect(cat, lines) ==
  JsonResult(preprocess_lines(lines, 50),
    JsonScan(preprocess_lines(lines, 50), 1,
      [json_count |-> 0, samples |-> << >>, schema |-> << >>]))

\* ---- structured_detectors.LTSVDetector
RECURSIVE LtsvScan(_, _, _)
LtsvScan(lines, i, acc) ==
  IF i > Len(lines) THEN acc
  ELSE LtsvScan(lines, i + 1,
         IF lines[i] \notin LtsvValidLines THEN acc
         ELSE [ matches |-> acc.matches + 1,
                samples |-> Append(acc.samples, lines[i]),
                schema |-> PairsToSchema(LtsvPairs(lines[i]), 1, acc.schema) ])

LtsvResult(processed, r) ==
  IF processed = << >>
  THEN FormatDetectionResult("ltsv", Zero, << >>, << >>, NoMetadata)
  ELSE FormatDetectionResult("ltsv",
         calculate_line_coverage(r.matches, Len(processed)),
         r.schema, SeqHead(r.samples, 5), "ltsv_matches" :> r.matches)

LTSVDetector_detect(cat, lines) ==
  LtsvResult(preprocess_lines(lines, 100),
    LtsvScan(preprocess_lines(lines, 100), 1,
      [matches |-> 0, samples |-> << >>, schema |-> << >>]))

\* ---- structured_detectors.KeyValueDetector
RECURSIVE KvScan(_, _, _)
KvScan(lines, i, acc) ==
  IF i > Len(lines) THEN acc
  ELSE KvScan(lines, i + 1,
         IF Len(KeyValuePairs(lines[i])) < 2 THEN acc
         ELSE [ matches |-> acc.matches + 1,
                samples |-> Append(acc.samples, lines[i]),
                schema |-> PairsToSchema(KeyValuePairs(lines[i]), 1,
                                         acc.schema) ])

KvResult(processed, r) ==
  IF processed = << >>
  THEN FormatDetectionResult("key_value", Zero, << >>, << >>, NoMetadata)
  ELSE FormatDetectionResult("key_value",
         calculate_line_coverage(r.matches, Len(processed)),
         r.schema, SeqHead(r.samples, 5), "kv_matches" :> r.matches)

KeyValueDetector_detect(cat, lines) ==
  KvResult(preprocess_lines(lines, 100),
    KvScan(preprocess_lines(lines, 100), 1,
      [matches |-> 0, samples |-> << >>, schema |-> << >>]))

\* ---- syslog_detectors.SystemdJournalDetector
\* its own preprocess_lines keeps the blank lines
journal_preprocess_lines(lines, max_lines) ==
  [i \in 1..(IF Len(lines) <= max_lines THEN Len(lines) ELSE max_lines)
     |-> Strip(lines[i])]

parse_journal_field(line) ==
  IF line \in LinesWithEquals /\ SplitEquals(line)[1] \in ValidJournalKeys
  THEN SplitEquals(line)
  ELSE << >>

RECURSIVE JournalEntriesFrom(_, _, _, _)
JournalEntriesFrom(lines, i, entries, current) ==
  IF i > Len(lines)
  THEN IF current # << >> THEN Append(entries, current) ELSE entries
  ELSE IF Strip(lines[i]) = ""
  THEN JournalEntriesFrom(lines, i + 1,
         IF current # << >> THEN Append(entries, current) ELSE entries,
         << >>)
  ELSE LET f == parse_journal_field(lines[i])
       IN JournalEntriesFrom(lines, i + 1, entries,
            IF f # << >> THEN DictSet(current, f[1], f[2]) ELSE current)

parse_journal_entries(lines) == JournalEntriesFrom(lines, 1, << >>, << >>)

JournalIntegerFields ==
  { "_PID", "_UID", "_GID", "PRIORITY", "EXIT_STATUS", "__REALTIME_TIMESTAMP",
    "__MONOTONIC_TIMESTAMP", "SOURCE_REALTIME_TIMESTAMP" }

JournalTimestampFields ==
  { "__REALTIME_TIMESTAMP", "__MONOTONIC_TIMESTAMP",
    "SOURCE_REALTIME_TIMESTAMP" }

RECURSIVE JournalFieldsFrom(_, _, _)
JournalFieldsFrom(entry, i, schema) ==
  IF i > Len(entry) THEN schema
  ELSE JournalFieldsFrom(entry, i + 1,
         update_field_info(schema, entry[i][1], entry[i][2],
           IF entry[i][1] \in JournalIntegerFields THEN "integer" ELSE None,
           entry[i][1] \in JournalTimestampFields))

RECURSIVE JournalSchemaFrom(_, _, _)
JournalSchemaFrom(entries, i, schema) ==
  IF i > Len(entries) THEN schema
  ELSE JournalSchemaFrom(entries, i + 1,
         JournalFieldsFrom(entries[i], 1, schema))

build_schema_from_entries(entries) == JournalSchemaFrom(entries, 1, << >>)

calculate_journal_confidence(entries, processed) ==
  IF entries = << >> THEN Zero
  ELSE LET expected == IF Len(processed) > 10
                       THEN Rat(Len(processed), 10) ELSE One
       IN RMin(Rat(Len(entries) * expected[2], expected[1]), One)

\* str(entry) of a journal entry dict
StrOfEntry(entry) ==
  IF entry = <<<<"MESSAGE", "hello">>>> THEN "{'MESSAGE': 'hello'}"
  ELSE "{...}"

SystemdJournalDetector_detect(cat, lines) ==
  LET processed == journal_preprocess_lines(lines, 200)
      entries == parse_journal_entries(processed)
      shown == SeqHead(entries, 5)
  IN FormatDetectionResult("systemd_journal",
       calculate_journal_confidence(entries, processed),
       build_schema_from_entries(entries),
       [i \in 1..Len(shown) |-> StrOfEntry(shown[i])],
       ("journal_entries" :> Len(entries))
       @@ ("total_lines_processed" :> Len(processed)))

\* ---- app_log_detectors.CustomDelimitedDetector and DelimiterAnalysis
RDiv(x, y) == Rat(x[1] * y[2], x[2] * y[1])

RECURSIVE SumSeq(_)
SumSeq(s) == IF s = << >> THEN 0 ELSE Head(s) + SumSeq(Tail(s))

\* the rows DelimiterAnalysis.add_line received: the stripped fields of
\* every line that holds the delimiter (a split then yields >= 2 fields)
RECURSIVE DelimitedRows(_, _, _)
DelimitedRows(lines, d, i) ==
  IF i > Len(lines) THEN << >>
  ELSE IF Len(SplitStrip(lines[i], d)) >= 2
       THEN <<[line |-> lines[i], fields |-> SplitStrip(lines[i], d)]>>
            \o DelimitedRows(lines, d, i + 1)
       ELSE DelimitedRows(lines, d, i + 1)

\* field_data[idx]["values"]
RECURSIVE ColumnValues(_, _, _)
ColumnValues(rows, idx, i) ==
  IF i > Len(rows) THEN << >>
  ELSE IF idx <= Len(rows[i].fields)
       THEN <<rows[i].fields[idx]>> \o ColumnValues(rows, idx, i + 1)
       ELSE ColumnValues(rows, idx, i + 1)

\* _infer_field_type: the most frequent inferred type, the one seen first
\* on a tie (max over a dict's items)
infer_field_type(values) ==
  LET idxs == {i \in 1..Len(values) : values[i] # ""}
      TypeAt(i) == infer_string_type(values[i])
      Count(t) == Cardinality({i \in idxs : TypeAt(i) = t})
      First(t) == CHOOSE i \in idxs :
                    TypeAt(i) = t /\ \A j \in idxs : TypeAt(j) = t => i <= j
  IN IF idxs = {} THEN "string"
     ELSE TypeAt(CHOOSE i \in idxs :
            \A j \in idxs :
              \/ Count(TypeAt(j)) < Count(TypeAt(i))
              \/ /\ Count(TypeAt(j)) = Count(TypeAt(i))
                 /\ First(TypeAt(i)) <= First(TypeAt(j)))

\* f"field_{field_idx + 1}"
FieldName(idx) ==
  CASE idx = 1 -> "field_1" [] idx = 2 -> "field_2" [] idx = 3 -> "field_3"
    [] idx = 4 -> "field_4" [] idx = 5 -> "field_5" [] idx = 6 -> "field_6"
    [] OTHER -> "field_n"

\* field_data keys are created in index order, so the schema is too
build_delimited_schema(rows) ==
  LET width == IF rows = << >> THEN 0
               ELSE CHOOSE w \in {Len(rows[i].fields) : i \in 1..Len(rows)} :
                      \A i \in 1..Len(rows) : Len(rows[i].fields) <= w
  IN [idx \in 1..width |->
        LET values == ColumnValues(rows, idx, 1)
        IN [ name |-> FieldName(idx),
             data_type |-> infer_field_type(values),
             is_timestamp |-> \E i \in 1..Len(values) :
                                values[i] # "" /\ TsDetect(values[i]),
             frequency |-> Len(values),
             confidence |-> Zero ]]

calculate_delimiter_confidence(rows, total_lines) ==
  LET c == Len(rows)
      counts == [i \in 1..c |-> Len(rows[i].fields)]
      S == SumSeq(counts)
      Q == SumSeq([i \in 1..c |-> counts[i] * counts[i]])
      coverage_score == Rat(c, total_lines)
      avg_field_count == Rat(S, c)
      field_count_variance == Rat(c * Q - S * S, c * c)
      variance_ratio == RDiv(field_count_variance,
                             IF RLe(One, avg_field_count)
                             THEN avg_field_count ELSE One)
      consistency_score == RSub(One, RDiv(variance_ratio, <<3, 10>>))
      adequacy_score == RMin(One, RDiv(avg_field_count, <<4, 1>>))
  IN IF c = 0 THEN Zero
     ELSE RMin(One, RAdd(RMul(<<1, 2>>, coverage_score),
                      RAdd(RMul(<<3, 10>>, consistency_score),
                           RMul(<<1, 5>>, adequacy_score))))

\* how the float sum of _calculate_delimiter_confidence lands against the
\* exact value, for up to four lines
delimiter_confidence_ulp(rows, total_lines) ==
  LET key == <<total_lines, [i \in 1..Len(rows) |-> Len(rows[i].fields)]>>
  IN IF key \in DelimiterConfidenceAbove THEN 1
     ELSE IF key \in DelimiterConfidenceBelow THEN 0 - 1
     ELSE 0

ZeroDelimited ==
  FormatDetectionResult("custom_delimited", Zero, << >>, << >>, NoMetadata)

\* the result for one delimiter, from the rows that hold it
DelimiterResult(delimiter, rows, confidence, ulp) ==
  IF rows = << >> \/ FloatLt(confidence, ulp, <<1, 2>>, 0)
  THEN ZeroDelimited
  ELSE [FormatDetectionResult("custom_delimited", confidence,
          build_delimited_schema(rows),
          SeqHead([i \in 1..Len(rows) |-> rows[i].line], 5),
          ("delimiter" :> delimiter) @@ ("consistent_lines" :> Len(rows)))
        EXCEPT !.ulp = ulp]

AnalysisResult(lines, delimiter, rows) ==
  DelimiterResult(delimiter, rows,
                  calculate_delimiter_confidence(rows, Len(lines)),
                  delimiter_confidence_ulp(rows, Len(lines)))

analyze_delimiter(lines, delimiter) ==
  AnalysisResult(lines, delimiter, DelimitedRows(lines, delimiter, 1))

CustomDelimiters == <<"|", ";", ":", "\t", "~">>

\* if result.confidence > best_result.confidence: best_result = result
BetterResult(best, result) ==
  IF FloatLt(best.confidence, best.ulp, result.confidence, result.ulp)
  THEN result ELSE best

\* the first delimiter whose result strictly beats all earlier ones
RECURSIVE BestDelimited(_, _, _)
BestDelimited(lines, i, best) ==
  IF i > Len(CustomDelimiters) THEN best
  ELSE BestDelimited(lines, i + 1,
         BetterResult(best, analyze_delimiter(lines, CustomDelimiters[i])))

CustomDelimitedDetector_detect(cat, lines) ==
  IF preprocess_lines(lines, 100) = << >> THEN ZeroDelimited
  ELSE BestDelimited(preprocess_lines(lines, 100), 1, ZeroDelimited)

\* ---- structured_detectors.CSVDetector
SnifferDelimiters == <<",", ";", "\t", "|">>

HasDelimiter(line, d) == DelimCount(line, d) > 0

\* csv.Sniffer().sniff on fewer than ten lines: it settles on a delimiter
\* exactly when every line holds it the same number of times, and raises
\* otherwise.
Sniffed(lines, d) ==
  \A i \in 1..Len(lines) :
     /\ HasDelimiter(lines[i], d)
     /\ DelimCount(lines[i], d) = DelimCount(lines[1], d)

sniff(lines) ==
  IF \E k \in 1..4 : Sniffed(lines, SnifferDelimiters[k])
  THEN SnifferDelimiters[CHOOSE k \in 1..4 :
         /\ Sniffed(lines, SnifferDelimiters[k])
         /\ \A j \in 1..(k - 1) : ~Sniffed(lines, SnifferDelimiters[j])]
  ELSE None

\* csv.Sniffer().has_header: a cell is a number (complex(cell) succeeds) or
\* counts by its length
CellType(t) ==
  IF t \in ComplexTexts THEN <<"complex", 0>> ELSE <<"length", CellLen(t)>>

\* columnTypes after one more row: a row of another width is skipped, a
\* column whose type changes is removed
ColumnTypesAfter(types, row) ==
  IF Len(row) # Len(types) THEN types
  ELSE [col \in 1..Len(types) |->
          IF types[col] = <<"deleted", 0>> \/ CellType(row[col]) = types[col]
          THEN types[col]
          ELSE IF types[col] = <<"None", 0>> THEN CellType(row[col])
          ELSE <<"deleted", 0>>]

\* the rows after the header, 21 of them at most
RECURSIVE ColumnTypes(_, _, _, _)
ColumnTypes(lines, d, i, types) ==
  IF i > Len(lines) \/ i > 22 THEN types
  ELSE ColumnTypes(lines, d, i + 1,
                   ColumnTypesAfter(types, CsvReaderRow(lines[i], d)))

\* the vote: a column speaks for a header when the first row's cell is not
\* of the column's type
HeaderVotes(header, types) ==
  Cardinality({col \in 1..Len(types) :
     \/ types[col] = <<"None", 0>>
     \/ types[col] = <<"complex", 0>> /\ header[col] \notin ComplexTexts
     \/ types[col][1] = "length" /\ CellLen(header[col]) # types[col][2]})
  > Cardinality({col \in 1..Len(types) :
     \/ types[col] = <<"complex", 0>> /\ header[col] \in ComplexTexts
     \/ types[col][1] = "length" /\ CellLen(header[col]) = types[col][2]})

HasHeaderWith(lines, d) ==
  HeaderVotes(CsvReaderRow(lines[1], d),
              ColumnTypes(lines, d, 2,
                          [col \in 1..Len(CsvReaderRow(lines[1], d)) |->
                             <<"None", 0>>]))

\* csv.Sniffer().has_header on the texts sniff accepts
sniffer_has_header(lines) == HasHeaderWith(lines, sniff(lines))

fallback_dialect_detection(lines) ==
  LET head == SeqHead(lines, 5)
      Counts(d) == {DelimCount(head[i], d) : i \in 1..Len(head)}
      MaxCount(d) == CHOOSE m \in Counts(d) : \A n \in Counts(d) : n <= m
      cands == {k \in 1..4 : Cardinality(Counts(SnifferDelimiters[k])) <= 2}
      best == CHOOSE k \in cands : \A j \in cands :
                \/ MaxCount(SnifferDelimiters[j]) < MaxCount(SnifferDelimiters[k])
                \/ /\ MaxCount(SnifferDelimiters[j]) = MaxCount(SnifferDelimiters[k])
                   /\ k <= j
  IN IF Len(head) < 2 \/ cands = {} THEN [delimiter |-> None, has_header |-> FALSE]
     ELSE [delimiter |-> SnifferDelimiters[best], has_header |-> TRUE]

detect_csv_dialect(lines) ==
  IF sniff(lines) # None
  THEN [delimiter |-> sniff(lines), has_header |-> sniffer_has_header(lines)]
  ELSE fallback_dialect_detection(lines)

\* one csv.DictReader row: dict(zip(fieldnames, row)), short rows padded
\* with None (str(None) below), long rows' surplus kept under the key None
RECURSIVE ZipRow(_, _, _, _)
ZipRow(fieldnames, row, i, d) ==
  IF i > Len(fieldnames) THEN d
  ELSE ZipRow(fieldnames, row, i + 1,
         DictSet(d, fieldnames[i], IF i <= Len(row) THEN row[i] ELSE "None"))

\* any(str(v).strip() for v in row.values())
RowHasValue(fieldnames, row) ==
  LET d == ZipRow(fieldnames, row, 1, << >>)
  IN \/ Len(row) > Len(fieldnames)
     \/ \E i \in 1..Len(d) : Strip(d[i][2]) # ""

RECURSIVE CsvScan(_, _, _, _)
CsvScan(lines, delimiter, i, acc) ==
  IF i > Len(lines) \/ acc.rows_processed >= 50 THEN acc
  ELSE
    LET fieldnames == CsvReaderRow(lines[1], delimiter)
        row == CsvReaderRow(lines[i], delimiter)
    IN CsvScan(lines, delimiter, i + 1,
         IF ~RowHasValue(fieldnames, row) THEN acc
         ELSE [ rows_processed |-> acc.rows_processed + 1,
                samples |-> Append(acc.samples,
                                   CsvSample(lines[1], lines[i], delimiter)),
                schema |-> PairsToSchema(ZipRow(fieldnames, row, 1, << >>), 1,
                                         acc.schema) ])

parse_csv_content(lines, delimiter) ==
  CsvScan(lines, delimiter, 2,
          [rows_processed |-> 0, samples |-> << >>, schema |-> << >>])

is_probably_csv(lines, delimiter, schema_data) ==
  LET delimiter_lines ==
        Cardinality({i \in 1..Len(lines) : HasDelimiter(lines[i], delimiter)})
  IN /\ delimiter_lines >= Max2(3, Len(lines) \div 2)
     /\ schema_data.rows_processed >= 3

calculate_csv_confidence(schema_data, total_lines) ==
  IF schema_data.rows_processed = 0 THEN Zero
  ELSE RMin(RAdd(Rat(schema_data.rows_processed, Max2(total_lines, 1)),
                 IF schema_data.rows_processed >= 3 THEN <<1, 5>> ELSE Zero),
            One)

ZeroCsv == FormatDetectionResult("csv", Zero, << >>, << >>, NoMetadata)

CsvResult(processed, dialect_info, schema_data) ==
  IF processed = << >> \/ dialect_info.delimiter = None THEN ZeroCsv
  ELSE IF ~is_probably_csv(processed, dialect_info.delimiter, schema_data)
  THEN ZeroCsv
  ELSE FormatDetectionResult("csv",
         calculate_csv_confidence(schema_data, Len(processed)),
         schema_data.schema, SeqHead(schema_data.samples, 5),
         ("delimiter" :> dialect_info.delimiter)
         @@ ("has_header" :> dialect_info.has_header)
         @@ ("rows_processed" :> schema_data.rows_processed))

CsvParsed(processed, dialect_info) ==
  CsvResult(processed, dialect_info,
            parse_csv_content(processed, dialect_info.delimiter))

CSVDetector_detect(cat, lines) ==
  CsvParsed(preprocess_lines(lines, 50),
            detect_csv_dialect(preprocess_lines(lines, 50)))

\* ---- inference_engine.LogSchemaInferenceEngine
\* self.detectors, in the order of the constructor
Detectors ==
  << "JSONDetector", "SyslogDetector", "PythonLogDetector",
     "SystemdJournalDetector", "ApacheDetector", "NginxDetector",
     "CSVDetector", "LTSVDetector", "GenericWebLogDetector",
     "CustomDelimitedDetector", "KeyValueDetector", "BasicLogDetector" >>

\* detector.detect(lines)
detect(name, cat, lines) ==
  CASE name = "JSONDetector" -> JSONDetector_detect(cat, lines)
    [] name = "SyslogDetector" -> SyslogDetector_detect(cat, lines)
    [] name = "PythonLogDetector" -> PythonLogDetector_detect(cat, lines)
    [] name = "SystemdJournalDetector" ->
         SystemdJournalDetector_detect(cat, lines)
    [] name = "ApacheDetector" -> ApacheDetector_detect(cat, lines)
    [] name = "NginxDetector" -> NginxDetector_detect(cat, lines)
    [] name = "CSVDetector" -> CSVDetector_detect(cat, lines)
    [] name = "LTSVDetector" -> LTSVDetector_detect(cat, lines)
    [] name = "GenericWebLogDetector" ->
         GenericWebLogDetector_detect(cat, lines)
    [] name = "CustomDelimitedDetector" ->
         CustomDelimitedDetector_detect(cat, lines)
    [] name = "KeyValueDetector" -> KeyValueDetector_detect(cat, lines)
    [] name = "BasicLogDetector" -> BasicLogDetector_detect(cat, lines)

\* detector.get_confidence_threshold()
get_confidence_threshold(name) ==
  CASE name = "JSONDetector" -> <<4, 5>>
    [] name = "SyslogDetector" -> <<7, 10>>
    [] name = "PythonLogDetector" -> <<4, 5>>
    [] name = "SystemdJournalDetector" -> <<3, 5>>
    [] name = "ApacheDetector" -> <<7, 10>>
    [] name = "NginxDetector" -> <<7, 10>>
    [] name = "CSVDetector" -> <<3, 5>>
    [] name = "LTSVDetector" -> <<7, 10>>
    [] name = "GenericWebLogDetector" -> <<3, 5>>
    [] name = "CustomDelimitedDetector" -> <<1, 2>>
    [] name = "KeyValueDetector" -> <<3, 5>>
    [] name = "BasicLogDetector" -> <<7, 10>>

\* error_msg = f"Detector {detector.name} failed: {e}"
ErrorMsg(name) == <<"Detector", name, "failed">>

\* a loop body that records the failure but keeps the failed detector in
\* the race
RunDetectorKeepFailed(acc, name, raising, result) ==
  IF FloatLe(get_confidence_threshold(name), 0, result.confidence, result.ulp)
  THEN [ results |-> Append(acc.results, result),
         detection_errors |->
           IF name \in raising
           THEN Append(acc.detection_errors, ErrorMsg(name))
           ELSE acc.detection_errors ]
  ELSE IF name \in raising
  THEN [acc EXCEPT !.detection_errors = Append(@, ErrorMsg(name))]
  ELSE acc

\* the body of the loop over self.detectors: raising holds the detectors
\* whose detect raises on this input, result is what detect returns when it
\* does not raise
RunDetector(acc, name, raising, result) ==
  IF name \in raising
  THEN [acc EXCEPT !.detection_errors = Append(@, ErrorMsg(name))]
  ELSE IF FloatLe(get_confidence_threshold(name), 0,
                  result.confidence, result.ulp)
  THEN [acc EXCEPT !.results = Append(@, result)]
  ELSE acc

\* the loop over self.detectors
RECURSIVE RunDetectors(_, _, _, _, _)
RunDetectors(cat, lines, raising, i, acc) ==
  IF i > Len(Detectors) THEN acc
  ELSE RunDetectors(cat, lines, raising, i + 1,
         RunDetector(acc, Detectors[i], raising,
                     detect(Detectors[i], cat, lines)))

\* a max that lets a later equal element replace the earlier one
RECURSIVE MaxFromLast(_, _, _)
MaxFromLast(results, i, best) ==
  IF i > Len(results) THEN best
  ELSE MaxFromLast(results, i + 1,
         IF FloatLe(results[best].confidence, results[best].ulp,
                    results[i].confidence, results[i].ulp)
         THEN i ELSE best)

\* max(results, key=lambda x: x.confidence): the first maximal element
RECURSIVE MaxFrom(_, _, _)
MaxFrom(results, i, best) ==
  IF i > Len(results) THEN best
  ELSE MaxFrom(results, i + 1,
         IF FloatLt(results[best].confidence, results[best].ulp,
                    results[i].confidence, results[i].ulp)
         THEN i ELSE best)

MaxByConfidence(results) == results[MaxFrom(results, 2, 1)]

\* _calculate_field_confidence
calculate_field_confidence(result) ==
  LET total_sample_lines == IF result.sample_lines # << >>
                            THEN Len(result.sample_lines) ELSE 1
      Conf(f) ==
        RMin(RAdd(RAdd(RMin(Rat(f.frequency, total_sample_lines), One),
                       IF f.is_timestamp THEN <<1, 5>> ELSE Zero),
                  IF f.data_type # "unknown" THEN <<1, 10>> ELSE Zero),
             One)
  IN [result EXCEPT !.schema =
        [i \in 1..Len(result.schema) |->
           [result.schema[i] EXCEPT !.confidence = Conf(result.schema[i])]]]

\* what analyze_lines returns once the loop has run
SelectResult(lines, run) ==
  IF run.results = << >>
  THEN FormatDetectionResult("unknown", Zero, << >>, SeqHead(lines, 5),
         ("message" :> "No format detected with sufficient confidence")
         @@ ("detection_errors" :> run.detection_errors)
         @@ ("total_lines_analyzed" :> Len(lines)))
  ELSE [calculate_field_confidence(MaxByConfidence(run.results))
          EXCEPT !.metadata =
            ("total_detectors_run" :> Len(Detectors))
            @@ ("detectors_above_threshold" :> Len(run.results))
            @@ ("detection_errors" :> run.detection_errors)
            @@ ("total_lines_analyzed" :> Len(lines))
            @@ @]

analyze_lines(cat, lines, raising) ==
  IF lines = << >>
  THEN FormatDetectionResult("unknown", Zero, << >>, << >>,
                             "error" :> "No lines provided")
  ELSE SelectResult(lines,
         RunDetectors(cat, lines, raising, 1,
                      [results |-> << >>, detection_errors |-> << >>]))

\* ======================================================================
\* parser/base_parser.py
\* ======================================================================
RMax(a, b) == IF RLe(a, b) THEN b ELSE a

\* ---- ParsedLogEntry as a parser creates it.  fields is the dict's items
\* in insertion order and a value is <<type, v>> for the Python type it has
\* after conversion; raw_line is the sequence of lines that "\n" joins (one
\* line everywhere but in a journal entry); line_number 0 is None;
\* timestamp is None or "datetime"; an error is <<message, interpolated
\* text>>.  via (the pattern that mapped the line) and source (the input
\* positions the entry was built from) are history the code does not keep.
ParsedLogEntry(raw_line, line_number) ==
  [ fields |-> << >>, raw_line |-> raw_line, line_number |-> line_number,
    timestamp |-> None, is_malformed |-> FALSE, parse_errors |-> << >>,
    confidence |-> One, via |-> None, source |-> {} ]

\* ParsedLogEntry.add_parse_error without the floor of 0.1
add_parse_error_unfloored(entry, error) ==
  [entry EXCEPT !.parse_errors = Append(entry.parse_errors, error),
                !.is_malformed = TRUE,
                !.confidence = RSub(One, Rat(Len(entry.parse_errors) + 1, 5))]

\* ---- ParsedLogEntry.add_parse_error.  0.2 * n is taken in tenths.
add_parse_error(entry, error) ==
  LET errors == Append(entry.parse_errors, error)
  IN [entry EXCEPT !.parse_errors = errors,
                   !.is_malformed = TRUE,
                   !.confidence = RMax(Rat(1, 10),
                                       RSub(One, Rat(Len(errors), 5)))]

HasField(entry, name) == \E i \in 1..Len(entry.fields) : entry.fields[i][1] = name

GetField(entry, name) ==
  entry.fields[CHOOSE i \in 1..Len(entry.fields) : entry.fields[i][1] = name][2]

SetField(entry, name, value) ==
  [entry EXCEPT !.fields = DictSet(entry.fields, name, value)]

\* a _convert_field_value that blanks what it cannot coerce
convert_field_value_blanking(schema, field_name, value) ==
  IF ~InSchema(schema, field_name) THEN <<"str", value>>
  ELSE LET data_type == Lower(schema[FieldIndex(schema, field_name)].data_type)
       IN IF data_type = "integer"
          THEN IF value \in IntTexts THEN <<"int", IntOf(value)>>
                                     ELSE <<"str", "">>
          ELSE IF data_type = "float"
          THEN IF value \in FloatTexts THEN <<"float", value>>
                                       ELSE <<"str", "">>
          ELSE IF data_type = "boolean"
          THEN <<"bool", value \in TruthyTexts>>
          ELSE <<"str", value>>

\* ---- BaseParser._convert_field_value on a str value
convert_field_value(schema, field_name, value) ==
  IF ~InSchema(schema, field_name) THEN <<"str", value>>
  ELSE LET data_type == Lower(schema[FieldIndex(schema, field_name)].data_type)
       IN IF data_type = "integer"
          THEN IF value \in IntTexts THEN <<"int", IntOf(value)>>
                                     ELSE <<"str", value>>
          ELSE IF data_type = "float"
          THEN IF value \in FloatTexts THEN <<"float", value>>
                                       ELSE <<"str", value>>
          ELSE IF data_type = "boolean"
          THEN <<"bool", value \in TruthyTexts>>
          ELSE <<"str", value>>

\* ---- BaseParser._extract_timestamp_from_entry
extract_timestamp_from_entry(entry) ==
  IF \E i \in 1..Len(entry.fields) :
        entry.fields[i][2][1] = "str" /\ TsDetect(entry.fields[i][2][2])
  THEN "datetime" ELSE None

\* ---- BaseParser._map_field_value
map_field_value(schema, entry, field_name, value) ==
  IF ~InSchema(schema, field_name) THEN entry
  ELSE IF field_name = "timestamp"
  THEN LET e == SetField(entry, field_name, <<"str", value>>)
       IN IF TsDetect(value)
          THEN [e EXCEPT !.timestamp = "datetime"]
          ELSE add_parse_error(e, <<"Failed to parse timestamp", value>>)
  ELSE SetField(entry, field_name, convert_field_value(schema, field_name, value))

\* the loop of _try_pattern: group i goes to field name i
RECURSIVE MapGroups(_, _, _, _, _)
MapGroups(schema, names, groups, i, entry) ==
  IF i > Len(names) THEN entry
  ELSE MapGroups(schema, names, groups, i + 1,
         IF i <= Len(groups)
         THEN map_field_value(schema, entry, names[i], groups[i])
         ELSE entry)

\* ---- PatternBasedParser._try_pattern on a pattern that matches.  The
\* outcome is the entry and whether an exception left the call.
PatternBasedParser_try_pattern(parser, line, p, entry) ==
  [ entry |-> MapGroups(parser.schema, PatternFieldNames(p),
                        MatchGroups(p, line), 1, entry),
    raised |-> FALSE ]

\* ---- PatternBasedParser._fallback_parsing
PatternBasedParser_fallback_parsing(parser, line, entry) ==
  LET e1 == add_parse_error(entry,
              <<"No matching pattern found - using fallback parsing", "">>)
      e2 == IF TsDetect(line)
            THEN LET t == [e1 EXCEPT !.timestamp = "datetime"]
                 IN IF InSchema(parser.schema, "timestamp")
                    THEN SetField(t, "timestamp", <<"str", line>>) ELSE t
            ELSE e1
  IN IF InSchema(parser.schema, "message")
     THEN SetField(e2, "message", <<"str", line>>) ELSE e2

\* ======================================================================
\* parser/web_log_parsers.py
\* ======================================================================
ApacheFormats == {"apache_common", "apache_combined", "apache_extended"}

NginxFormats == {"nginx_access", "nginx_error"}

\* ---- WebLogParser._parse_web_timestamp
parse_web_timestamp(parser, entry) ==
  LET value == GetField(entry, "timestamp")
      timestamp_str == value[2]
      detected == IF TsDetect(timestamp_str)
                  THEN [entry EXCEPT !.timestamp = "datetime"]
                  ELSE add_parse_error(entry,
                         <<"Failed to parse timestamp", timestamp_str>>)
  IN IF parser.format_type = "nginx_error"
     THEN IF timestamp_str \in StrptimeNginxErrorTexts
          THEN [entry |-> [entry EXCEPT !.timestamp = "datetime"], raised |-> FALSE]
          ELSE [entry |-> detected, raised |-> FALSE]
     ELSE IF WebBracketStrptime(timestamp_str) = "ok"
     THEN [entry |-> [entry EXCEPT !.timestamp = "datetime"], raised |-> FALSE]
     ELSE IF WebBracketStrptime(timestamp_str) = "IndexError"
     THEN [entry |-> entry, raised |-> TRUE]
     ELSE [entry |-> detected, raised |-> FALSE]

\* ---- WebLogParser._parse_request_field
parse_request_field(parser, entry) ==
  LET request == GetField(entry, "request")
      parts == SplitWhitespace(request[2])
      Put(e, name, i) ==
        IF InSchema(parser.schema, name) /\ Len(parts) >= i
        THEN SetField(e, name, <<"str", parts[i]>>) ELSE e
  IN IF request[1] # "str" \/ request[2] \in {"", "-"} \/ Len(parts) < 2
     THEN entry
     ELSE Put(Put(Put(entry, "method", 1), "path", 2), "protocol", 3)

\* ---- WebLogParser._try_pattern on a pattern that matches: the groups are
\* mapped, then the timestamp and the request line are taken apart
WebTimestampParsed(parser, e1) ==
  IF HasField(e1, "timestamp") THEN parse_web_timestamp(parser, e1)
  ELSE [entry |-> e1, raised |-> FALSE]

WebRequestParsed(parser, r2) ==
  IF r2.raised THEN r2
  ELSE IF HasField(r2.entry, "request")
  THEN [entry |-> parse_request_field(parser, r2.entry), raised |-> FALSE]
  ELSE r2

WebLogParser_try_pattern(parser, line, p, entry) ==
  WebRequestParsed(parser,
    WebTimestampParsed(parser,
      PatternBasedParser_try_pattern(parser, line, p, entry).entry))

\* ======================================================================
\* parser/syslog_parsers.py
\* ======================================================================
\* int -> field value, as _convert_field_value(name, str(n)) gives it
ConvertNumber(schema, field_name, n) ==
  IF ~InSchema(schema, field_name) THEN <<"str", ToString(n)>>
  ELSE LET data_type == Lower(schema[FieldIndex(schema, field_name)].data_type)
       IN IF data_type = "integer" THEN <<"int", n>>
          ELSE IF data_type = "float" THEN <<"float", ToString(n)>>
          ELSE IF data_type = "boolean" THEN <<"bool", n = 1>>
          ELSE <<"str", ToString(n)>>

\* The timestamp branch shared by the syslog and journal parsers: the raw
\* text is stored, strptime("%Y %b %d %H:%M:%S") is tried with the current
\* year in front, and on ValueError the text goes through _map_field_value.
SyslogTimestamp(schema, entry, value) ==
  LET e == SetField(entry, "timestamp", <<"str", value>>)
  IN IF value \in StrptimeSyslogTexts
     THEN [e EXCEPT !.timestamp = "datetime"]
     ELSE map_field_value(schema, e, "timestamp", value)

RfcFieldMapping(rfc_type) ==
  IF rfc_type = "RFC3164"
  THEN <<"priority", "timestamp", "hostname", "tag", "message">>
  ELSE <<"priority", "version", "timestamp", "hostname", "app_name",
         "procid", "msgid", "message">>

\* ---- SyslogParser._extract_facility_severity
extract_facility_severity(schema, priority, entry) ==
  LET Severity(e1) ==
        IF InSchema(schema, "severity")
        THEN SetField(e1, "severity",
                      ConvertNumber(schema, "severity", priority % 8))
        ELSE e1
  IN Severity(IF InSchema(schema, "facility")
              THEN SetField(entry, "facility",
                            ConvertNumber(schema, "facility", priority \div 8))
              ELSE entry)

\* the loop over field_mapping: values[i] is match.group(names[i])
RECURSIVE RfcFieldsFrom(_, _, _, _, _, _)
RfcFieldsFrom(schema, rfc_type, names, values, i, entry) ==
  IF i > Len(names) THEN entry
  ELSE RfcFieldsFrom(schema, rfc_type, names, values, i + 1,
         IF ~InSchema(schema, names[i]) \/ values[i] = "" THEN entry
         ELSE IF names[i] = "timestamp"
         THEN IF rfc_type = "RFC3164"
              THEN SyslogTimestamp(schema, entry, values[i])
              ELSE map_field_value(schema,
                     SetField(entry, "timestamp", <<"str", values[i]>>),
                     "timestamp", values[i])
         ELSE SetField(entry, names[i],
                       convert_field_value(schema, names[i], values[i])))

\* if priority_str: self._extract_facility_severity(int(priority_str), entry)
PriorityFields(schema, priority, entry) ==
  IF priority # ""
  THEN extract_facility_severity(schema, IntOf(priority), entry)
  ELSE entry

\* ---- SyslogParser._parse_rfc_pattern
parse_rfc_pattern(parser, line, p, entry) ==
  PriorityFields(parser.schema, GroupNamed(p, line, "priority"),
    RfcFieldsFrom(parser.schema, PatternName(p),
                  RfcFieldMapping(PatternName(p)),
                  GroupsNamed(p, line, RfcFieldMapping(PatternName(p))),
                  1, entry))

\* ---- SyslogParser._try_pattern on a pattern that matches
SyslogParser_try_pattern(parser, line, p, entry) ==
  IF PatternName(p) \in {"RFC3164", "RFC5424"}
  THEN [entry |-> parse_rfc_pattern(parser, line, p, entry), raised |-> FALSE]
  ELSE PatternBasedParser_try_pattern(parser, line, p, entry)

\* the loop over timestamp, hostname, ... of a positional field mapping
RECURSIVE SimpleFieldsFrom(_, _, _, _, _)
SimpleFieldsFrom(schema, names, groups, i, entry) ==
  IF i > Len(names) THEN entry
  ELSE SimpleFieldsFrom(schema, names, groups, i + 1,
         IF ~InSchema(schema, names[i]) THEN entry
         ELSE IF names[i] = "timestamp"
         THEN SyslogTimestamp(schema, entry, groups[i])
         ELSE SetField(entry, names[i],
                       convert_field_value(schema, names[i], groups[i])))

\* ---- SyslogParser._fallback_parsing: a line of the shape "Mon d h:m:s
\* host text" is mapped by simple_pattern and no error is recorded.
SyslogParser_fallback_parsing(parser, line, entry) ==
  IF SimplePatternGroups(line) # << >>
  THEN [ SimpleFieldsFrom(parser.schema, <<"timestamp", "hostname", "message">>,
                          SimplePatternGroups(line), 1, entry)
         EXCEPT !.via = "simple_pattern" ]
  ELSE PatternBasedParser_fallback_parsing(parser, line, entry)

\* ---- SystemdJournalParser._parse_journalctl_output
parse_journalctl_output(parser, line, entry) ==
  IF JournalctlGroups(line) = << >>
  THEN LET e == add_parse_error(entry,
                  <<"Line does not match journalctl output format", "">>)
       IN IF InSchema(parser.schema, "message")
          THEN SetField(e, "message", <<"str", line>>) ELSE e
  ELSE [ SimpleFieldsFrom(parser.schema,
                          <<"timestamp", "hostname", "service", "message">>,
                          JournalctlGroups(line), 1, entry)
         EXCEPT !.via = "journalctl_pattern" ]

\* One NAME=value line whose name is in the schema.  fromtimestamp takes
\* float(value) / 1000000; a value float() rejects adds one error.
JournalField(parser, entry, field_name, value) ==
  IF ~InSchema(parser.schema, field_name) THEN entry
  ELSE IF field_name = "__REALTIME_TIMESTAMP"
  THEN LET e == SetField(entry, field_name, <<"str", value>>)
       IN IF value \in FloatTexts
          THEN [e EXCEPT !.timestamp = "datetime"]
          ELSE add_parse_error(e,
                 <<"Failed to parse realtime timestamp", value>>)
  ELSE SetField(entry, field_name,
                convert_field_value(parser.schema, field_name, value))

\* ---- SystemdJournalParser.parse_line
SystemdJournalParser_parse_line(parser, line, line_number) ==
  LET entry == ParsedLogEntry(<<line>>, line_number)
  IN IF line \in LinesWithEquals
     THEN IF line \notin JournalFieldPatternLines
          THEN add_parse_error(entry, <<"Invalid journal field format", "">>)
          ELSE [ JournalField(parser, entry, SplitEquals(line)[1],
                              SplitEquals(line)[2])
                 EXCEPT !.via = "field_pattern" ]
     ELSE parse_journalctl_output(parser, line, entry)

RECURSIVE JournalEntryFrom(_, _, _, _)
JournalEntryFrom(parser, entry_lines, i, entry) ==
  IF i > Len(entry_lines) THEN entry
  ELSE LET line == entry_lines[i]
       IN JournalEntryFrom(parser, entry_lines, i + 1,
            IF line \notin LinesWithEquals
            THEN add_parse_error(entry,
                   <<"Invalid journal field format", line>>)
            ELSE IF line \notin JournalFieldPatternLines
            THEN add_parse_error(entry,
                   <<"Invalid journal field name", SplitEquals(line)[1]>>)
            ELSE JournalField(parser, entry, SplitEquals(line)[1],
                              SplitEquals(line)[2]))

\* ---- SystemdJournalParser._parse_journal_entry
parse_journal_entry(parser, entry_lines) ==
  LET entry == ParsedLogEntry(entry_lines, 0)
  IN IF Len(entry_lines) = 1 /\ entry_lines[1] \notin LinesWithEquals
     THEN parse_journalctl_output(parser, entry_lines[1], entry)
     ELSE JournalEntryFrom(parser, entry_lines, 1, entry)

\* ---- SystemdJournalParser._group_lines_into_entries.  A group is the
\* stripped lines between blank lines, kept with their input positions.
RECURSIVE GroupFrom(_, _, _, _)
GroupFrom(lines, i, entries, current_entry) ==
  IF i > Len(lines)
  THEN IF current_entry.lines # << >> THEN Append(entries, current_entry)
       ELSE entries
  ELSE IF Strip(lines[i]) = ""
  THEN IF current_entry.lines # << >>
       THEN GroupFrom(lines, i + 1, Append(entries, current_entry),
                      [lines |-> << >>, source |-> {}])
       ELSE GroupFrom(lines, i + 1, entries, current_entry)
  ELSE GroupFrom(lines, i + 1, entries,
         [lines |-> Append(current_entry.lines, Strip(lines[i])),
          source |-> current_entry.source \cup {i}])

group_lines_into_entries(lines) ==
  GroupFrom(lines, 1, << >>, [lines |-> << >>, source |-> {}])

\* ---- SystemdJournalParser.parse_lines: the entries
SystemdJournalParser_parse_lines(parser, lines) ==
  LET journal_entries == group_lines_into_entries(lines)
  IN [k \in 1..Len(journal_entries) |->
        [ parse_journal_entry(parser, journal_entries[k].lines)
          EXCEPT !.source = journal_entries[k].source ]]

\* ======================================================================
\* parser/structured_parsers.py
\* ======================================================================
PairIndex(pairs, key) ==
  IF \E i \in 1..Len(pairs) : pairs[i][1] = key
  THEN CHOOSE i \in 1..Len(pairs) : pairs[i][1] = key
  ELSE 0

RECURSIVE JsonFieldsFrom(_, _, _, _)
JsonFieldsFrom(schema, items, i, entry) ==
  IF i > Len(schema) THEN entry
  ELSE LET field_name == schema[i].name
           k == PairIndex(items, field_name)
       IN JsonFieldsFrom(schema, items, i + 1,
            IF k # 0
            THEN SetField(entry, field_name,
                          convert_field_value(schema, field_name, items[k][2]))
            ELSE add_parse_error(entry,
                   <<"Expected field not found in JSON", field_name>>))

\* the entry once every schema field has been looked up
StructuredEntry(e, via) ==
  [e EXCEPT !.timestamp = extract_timestamp_from_entry(e), !.via = via]

\* ---- JSONParser.parse_line.  A JSON number is not a container: the
\* first `field_name in json_data` raises TypeError, which the last except
\* clause records.
JSONParser_parsed(parser, json_data, entry) ==
  IF json_data.kind = "invalid"
  THEN add_parse_error(entry, <<"Invalid JSON", "">>)
  ELSE IF json_data.kind = "scalar"
  THEN IF parser.schema = << >> THEN entry
       ELSE add_parse_error(entry, <<"Unexpected error parsing JSON", "">>)
  ELSE StructuredEntry(JsonFieldsFrom(parser.schema, json_data.items, 1, entry),
                       "json.loads")

JSONParser_parse_line(parser, line, line_number) ==
  JSONParser_parsed(parser, JsonLoads(line),
                    ParsedLogEntry(<<line>>, line_number))

\* ---- DelimitedParser._get_delimiter_candidates
get_delimiter_candidates(format_type) ==
  IF format_type = "csv" THEN <<",", ";", "\t", "|">>
  ELSE <<"|", ";", "\t", ",", ":", " ">>

\* ---- DelimitedParser._get_default_delimiter
get_default_delimiter(format_type) == IF format_type = "csv" THEN "," ELSE "|"

Abs(n) == IF n < 0 THEN 0 - n ELSE n

\* count * (1.0 / (1 + abs(field_count - expected_fields)))
DelimiterScore(sample_line, delimiter, expected_fields) ==
  LET count == DelimCount(sample_line, delimiter)
  IN Rat(count, 1 + Abs(count + 1 - expected_fields))

\* max(...) keeps the first of the best-scoring candidates
RECURSIVE BestCandidate(_, _, _, _, _)
BestCandidate(candidates, sample_line, expected_fields, i, best) ==
  IF i > Len(candidates) THEN candidates[best]
  ELSE BestCandidate(candidates, sample_line, expected_fields, i + 1,
         IF RLt(DelimiterScore(sample_line, candidates[best], expected_fields),
                DelimiterScore(sample_line, candidates[i], expected_fields))
         THEN i ELSE best)

\* ---- DelimitedParser._detect_delimiter
detect_delimiter(detection_result) ==
  IF "delimiter" \in DOMAIN detection_result.metadata
  THEN detection_result.metadata["delimiter"]
  ELSE IF detection_result.sample_lines = << >>
  THEN get_default_delimiter(detection_result.format_type)
  ELSE BestCandidate(get_delimiter_candidates(detection_result.format_type),
                     detection_result.sample_lines[1],
                     Len(detection_result.schema), 2, 1)

RECURSIVE DelimitedFieldsFrom(_, _, _, _)
DelimitedFieldsFrom(schema, parts, i, entry) ==
  IF i > Len(schema) THEN entry
  ELSE LET field_name == schema[i].name
       IN DelimitedFieldsFrom(schema, parts, i + 1,
            IF i > Len(parts)
            THEN add_parse_error(entry,
                   <<"Missing value for field", field_name>>)
            ELSE IF schema[i].is_timestamp
            THEN LET e == SetField(entry, field_name, <<"str", parts[i]>>)
                 IN IF TsDetect(parts[i])
                    THEN [e EXCEPT !.timestamp = "datetime"]
                    ELSE add_parse_error(e,
                           <<"Failed to parse timestamp", parts[i]>>)
            ELSE SetField(entry, field_name,
                          convert_field_value(schema, field_name, parts[i])))

\* ---- DelimitedParser.parse_line.  The parts are taken stripped, as every
\* use of them strips first.
DelimitedParts(parser, line) ==
  IF parser.format_type = "csv"
  THEN [i \in 1..Len(CsvReaderRow(line, parser.delimiter)) |->
          Strip(CsvReaderRow(line, parser.delimiter)[i])]
  ELSE SplitStrip(line, parser.delimiter)

DelimitedParser_parsed(parser, parts, entry) ==
  LET Extra(e1) ==
        IF Len(parts) > Len(parser.field_names)
        THEN add_parse_error(e1,
               <<"Extra values found",
                 ToString(Len(parts) - Len(parser.field_names))>>)
        ELSE e1
      Finish(e2) ==
        [e2 EXCEPT !.via = "split",
                   !.timestamp =
                     IF @ = None /\ \E i \in 1..Len(parts) : TsDetect(parts[i])
                     THEN "datetime" ELSE @]
  IN Finish(Extra(DelimitedFieldsFrom(parser.schema, parts, 1, entry)))

DelimitedParser_parse_line(parser, line, line_number) ==
  DelimitedParser_parsed(parser, DelimitedParts(parser, line),
                         ParsedLogEntry(<<line>>, line_number))

RECURSIVE KeyValueFieldsFrom(_, _, _, _)
KeyValueFieldsFrom(schema, found_fields, i, entry) ==
  IF i > Len(schema) THEN entry
  ELSE LET field_name == schema[i].name
           Same(k) == /\ found_fields[k][1] # ""
                      /\ Lower(found_fields[k][1]) = Lower(field_name)
           found_key ==
             IF PairIndex(found_fields, field_name) # 0
             THEN PairIndex(found_fields, field_name)
             ELSE IF \E k \in 1..Len(found_fields) : Same(k)
             THEN CHOOSE k \in 1..Len(found_fields) :
                    Same(k) /\ \A j \in 1..(k - 1) : ~Same(j)
             ELSE 0
       IN KeyValueFieldsFrom(schema, found_fields, i + 1,
            IF found_key # 0
            THEN SetField(entry, field_name,
                   convert_field_value(schema, field_name,
                                       found_fields[found_key][2]))
            ELSE add_parse_error(entry,
                   <<"Expected field not found", field_name>>))

\* ---- KeyValueParser.parse_line
KeyValueParser_parsed(parser, found_fields, entry) ==
  IF found_fields = << >>
  THEN add_parse_error(entry, <<"No valid key-value pairs found", "">>)
  ELSE StructuredEntry(KeyValueFieldsFrom(parser.schema, found_fields, 1, entry),
                       "findall")

KeyValueParser_parse_line(parser, line, line_number) ==
  KeyValueParser_parsed(parser,
    IF parser.format_type = "ltsv" THEN LtsvFindall(line)
    ELSE KeyValuePairs(line),
    ParsedLogEntry(<<line>>, line_number))

\* ======================================================================
\* parser/parsing_engine.py and the parse_line / parse_lines dispatch
\* ======================================================================
\* A parser object.  patterns names the catalog list self.patterns is bound
\* to (the list itself, not a copy), None for the empty list of
\* PatternBasedParser.__init__.
Parser(class, detection_result, patterns, delimiter, field_names) ==
  [ class |-> class, format_type |-> detection_result.format_type,
    schema |-> detection_result.schema, patterns |-> patterns,
    delimiter |-> delimiter, field_names |-> field_names ]

NoParser ==
  [ class |-> None, format_type |-> "unknown", schema |-> << >>,
    patterns |-> None, delimiter |-> None, field_names |-> << >> ]

\* ---- LogParsingEngine.__init__: parser_classes
RegisteredFormats == LogFormat \ {"unknown"}

parser_classes(format_type) ==
  CASE format_type = "json" -> "JSONParser"
    [] format_type \in {"csv", "custom_delimited"} -> "DelimitedParser"
    [] format_type \in {"ltsv", "key_value"} -> "KeyValueParser"
    [] format_type \in ApacheFormats \cup NginxFormats -> "WebLogParser"
    [] format_type = "syslog" -> "SyslogParser"
    [] format_type = "systemd_journal" -> "SystemdJournalParser"
    [] format_type \in {"python_log", "basic_log"} -> "PatternBasedParser"

\* ---- WebLogParser._setup_parser: self.patterns is the catalog's own list
\* and extend() appends to it in place.
WebLogParser_setup_parser(cat, format_type) ==
  IF format_type \in ApacheFormats
  THEN [ patterns |-> "ApacheDetector",
         catalog |-> IF format_type = "apache_extended"
                     THEN [cat EXCEPT !["ApacheDetector"] =
                             @ \o cat["ApacheDetector_EXTENDED"]]
                     ELSE cat ]
  ELSE IF format_type \in NginxFormats
  THEN [ patterns |-> "NginxDetector",
         catalog |-> [cat EXCEPT !["NginxDetector"] =
                        @ \o cat[IF format_type = "nginx_access"
                                 THEN "NginxDetector_ACCESS_ALT"
                                 ELSE "NginxDetector_ERROR_ALT"]] ]
  ELSE [patterns |-> "GenericWebLogDetector", catalog |-> cat]

\* create_parser that also refuses a detection result without a schema
create_parser_needing_schema(cat, detection_result) ==
  IF detection_result.format_type = "unknown" \/ detection_result.schema = << >>
  THEN [ status |-> "raised", error |-> "ValueError", parser |-> NoParser,
         catalog |-> cat ]
  ELSE [ status |-> "ok", error |-> None,
         parser |-> Parser(parser_classes(detection_result.format_type),
                           detection_result, None, None, << >>),
         catalog |-> cat ]

\* ---- LogParsingEngine.create_parser.  LogFormat members are compared by
\* value: the engine and the detectors are taken to share one LogFormat.
create_parser(cat, detection_result) ==
  LET format_type == detection_result.format_type
      Ok(parser, c) ==
        [status |-> "ok", error |-> None, parser |-> parser, catalog |-> c]
      Raise ==
        [ status |-> "raised", error |-> "ValueError", parser |-> NoParser,
          catalog |-> cat ]
  IN IF format_type = "unknown" THEN Raise
     ELSE IF format_type \notin RegisteredFormats THEN Raise
     ELSE LET class == parser_classes(format_type)
          IN IF class = "WebLogParser"
             THEN LET s == WebLogParser_setup_parser(cat, format_type)
                  IN Ok(Parser(class, detection_result, s.patterns, None, << >>),
                        s.catalog)
             ELSE IF class = "SyslogParser"
             THEN Ok(Parser(class, detection_result, "SyslogDetector", None,
                            << >>), cat)
             ELSE IF class = "PatternBasedParser"
             THEN Ok(Parser(class, detection_result,
                            IF format_type = "python_log"
                            THEN "PythonLogDetector" ELSE "BasicLogDetector",
                            None, << >>), cat)
             ELSE IF class = "DelimitedParser"
             THEN Ok(Parser(class, detection_result, None,
                            detect_delimiter(detection_result),
                            SchemaKeys(detection_result.schema)), cat)
             ELSE Ok(Parser(class, detection_result, None, None, << >>), cat)

\* self._try_pattern(line, pattern, entry) by the parser's class, on a
\* pattern that matches
try_pattern(parser, line, p, entry) ==
  IF parser.class = "WebLogParser"
  THEN WebLogParser_try_pattern(parser, line, p, entry)
  ELSE IF parser.class = "SyslogParser"
  THEN SyslogParser_try_pattern(parser, line, p, entry)
  ELSE PatternBasedParser_try_pattern(parser, line, p, entry)

\* self._fallback_parsing(line, entry) by the parser's class
fallback_parsing(parser, line, entry) ==
  IF parser.class = "SyslogParser"
  THEN SyslogParser_fallback_parsing(parser, line, entry)
  ELSE PatternBasedParser_fallback_parsing(parser, line, entry)

\* the list self.patterns is bound to, as it stands at the call
PatternsOf(cat, parser) ==
  IF parser.patterns = None THEN << >> ELSE cat[parser.patterns]

\* ---- PatternBasedParser.parse_line.  _try_pattern is False exactly when
\* the regular expression does not match, so the first pattern of the list
\* that matches (position k, 0 for none) maps the line.
PatternBasedParser_parsed(parser, line, patterns, k, entry) ==
  LET Mapped(p, r) ==
        IF r.raised
        THEN add_parse_error([r.entry EXCEPT !.via = p], <<"Parsing error", "">>)
        ELSE [r.entry EXCEPT !.via = p]
      Fallen(e) == IF e.via = None THEN [e EXCEPT !.via = "fallback"] ELSE e
  IN IF k # 0
     THEN Mapped(patterns[k], try_pattern(parser, line, patterns[k], entry))
     ELSE Fallen(fallback_parsing(parser, line, entry))

PatternBasedParser_parse_line(cat, parser, line, line_number) ==
  PatternBasedParser_parsed(parser, line, PatternsOf(cat, parser),
                            FirstMatch(PatternsOf(cat, parser), line),
                            ParsedLogEntry(<<line>>, line_number))

\* parser.parse_line(line, line_number) by the parser's class
parse_line(cat, parser, line, line_number) ==
  CASE parser.class = "JSONParser" ->
         JSONParser_parse_line(parser, line, line_number)
    [] parser.class = "DelimitedParser" ->
         DelimitedParser_parse_line(parser, line, line_number)
    [] parser.class = "KeyValueParser" ->
         KeyValueParser_parse_line(parser, line, line_number)
    [] parser.class = "SystemdJournalParser" ->
         SystemdJournalParser_parse_line(parser, line, line_number)
    [] OTHER -> PatternBasedParser_parse_line(cat, parser, line, line_number)

\* BaseParser.parse_lines numbering the lines it keeps instead of the lines
\* it reads
RECURSIVE BaseParser_parse_lines_renumbered(_, _, _, _, _)
BaseParser_parse_lines_renumbered(cat, parser, lines, i, entries) ==
  IF i > Len(lines) THEN entries
  ELSE BaseParser_parse_lines_renumbered(cat, parser, lines, i + 1,
         IF Strip(lines[i]) = "" THEN entries
         ELSE Append(entries,
                [ parse_line(cat, parser, Strip(lines[i]), Len(entries) + 1)
                  EXCEPT !.source = {i} ]))

\* ---- BaseParser.parse_lines: the entries, from line i on
RECURSIVE BaseParser_parse_lines(_, _, _, _, _)
BaseParser_parse_lines(cat, parser, lines, i, entries) ==
  IF i > Len(lines) THEN entries
  ELSE BaseParser_parse_lines(cat, parser, lines, i + 1,
         IF Strip(lines[i]) = "" THEN entries
         ELSE Append(entries,
                [ parse_line(cat, parser, Strip(lines[i]), i)
                  EXCEPT !.source = {i} ]))

\* ---- BaseParser._classify_error.  An error is <<template, argument>>;
\* the words of the message are those of its template (with the exception
\* text the template ends in: the TypeError of JSONParser reads "argument
\* of type 'int' is not iterable") and those of its argument.
TemplateWords(template) ==
  CASE template \in {"Failed to parse timestamp", "Failed to parse realtime timestamp"}
         -> {"timestamp"}
    [] template \in {"Expected field not found in JSON", "Expected field not found",
                     "Missing value for field", "Invalid journal field name"}
         -> {"field"}
    [] template = "Invalid journal field format" -> {"field", "format"}
    [] template = "Line does not match journalctl output format" -> {"format"}
    [] template = "Unexpected error parsing JSON" -> {"type"}
    [] OTHER -> {}

ClassOf(words) ==
  IF "timestamp" \in words THEN "timestamp_parsing"
  ELSE IF "field" \in words THEN "field_extraction"
  ELSE IF "format" \in words THEN "format_mismatch"
  ELSE IF "type" \in words THEN "type_conversion"
  ELSE "other"

classify_error(error) == ClassOf(TemplateWords(error[1]) \cup WordsIn(error[2]))

RECURSIVE SumConfidence(_, _)
SumConfidence(entries, k) ==
  IF k > Len(entries) THEN Zero
  ELSE RAdd(entries[k].confidence, SumConfidence(entries, k + 1))

\* the (entry, error) positions of a batch
ErrorsOf(entries) ==
  UNION { { <<k, j>> : j \in 1..Len(entries[k].parse_errors) } :
            k \in 1..Len(entries) }

\* ---- BaseParser._calculate_statistics: a dict, empty for no entries
calculate_statistics(schema, entries) ==
  IF entries = << >> THEN << >>
  ELSE [ field_extraction_rates |->
           [ i \in 1..Len(schema) |->
               [ name |-> schema[i].name,
                 extraction_rate |->
                   Rat(Cardinality({k \in 1..Len(entries) :
                                      HasField(entries[k], schema[i].name)}),
                       Len(entries)),
                 total_extracted |->
                   Cardinality({k \in 1..Len(entries) :
                                  HasField(entries[k], schema[i].name)}) ] ],
         average_confidence |->
           Rat(SumConfidence(entries, 1)[1],
               SumConfidence(entries, 1)[2] * Len(entries)),
         error_types |->
           [ t \in { classify_error(entries[x[1]].parse_errors[x[2]]) :
                       x \in ErrorsOf(entries) } |->
               Cardinality({ x \in ErrorsOf(entries) :
                               classify_error(entries[x[1]].parse_errors[x[2]]) = t }) ] ]

\* ---- ParseResult: the counts parse_lines takes from its entries
ParseResult(entries, lines, parse_statistics) ==
  [ entries |-> entries,
    total_lines |-> Cardinality({i \in 1..Len(lines) : Strip(lines[i]) # ""}),
    successfully_parsed |->
      Cardinality({k \in 1..Len(entries) : ~entries[k].is_malformed}),
    malformed_lines |->
      Cardinality({k \in 1..Len(entries) : entries[k].is_malformed}),
    parse_statistics |-> parse_statistics ]

\* the ParseResult of a batch of entries
ResultFor(schema, entries, lines) ==
  ParseResult(entries, lines, calculate_statistics(schema, entries))

\* parser.parse_lines(lines) by the parser's class
parse_lines(cat, parser, lines) ==
  ResultFor(parser.schema,
            IF parser.class = "SystemdJournalParser"
            THEN SystemdJournalParser_parse_lines(parser, lines)
            ELSE BaseParser_parse_lines(cat, parser, lines, 1, << >>),
            lines)

\* What an engine call leaves: the exception, or the parser and the entries
\* (parse_single_line returns its one entry and no counts).
EngineOutput(op, created, result) ==
  [ op |-> op, status |-> created.status, error |-> created.error,
    parser |-> created.parser, entries |-> result.entries,
    total_lines |-> result.total_lines,
    successfully_parsed |-> result.successfully_parsed,
    malformed_lines |-> result.malformed_lines,
    parse_statistics |-> result.parse_statistics, validation |-> << >> ]

\* ---- LogParsingEngine.parse_lines: the parser is created, then used
ParseLinesWith(created, lines) ==
  EngineOutput("parse_lines", created,
    IF created.status = "ok"
    THEN parse_lines(created.catalog, created.parser, lines)
    ELSE ParseResult(<< >>, << >>, << >>))

\* result.parse_statistics.update({"format_detection_confidence": ...})
StatisticsUpdated(output, confidence) ==
  IF output.status = "ok"
  THEN [output EXCEPT !.parse_statistics =
          ("format_detection_confidence" :> confidence) @@ @]
  ELSE output

LogParsingEngine_parse_lines(cat, lines, detection_result) ==
  StatisticsUpdated(ParseLinesWith(create_parser(cat, detection_result), lines),
                    detection_result.confidence)

\* ---- LogParsingEngine.parse_single_line
ParseSingleLineWith(created, line) ==
  EngineOutput("parse_single_line", created,
    [ entries |-> IF created.status = "ok"
                  THEN <<parse_line(created.catalog, created.parser, line, 0)>>
                  ELSE << >>,
      total_lines |-> 0, successfully_parsed |-> 0, malformed_lines |-> 0,
      parse_statistics |-> << >> ])

LogParsingEngine_parse_single_line(cat, line, detection_result) ==
  ParseSingleLineWith(create_parser(cat, detection_result), line)

\* ---- LogParsingEngine.validate_parsing_capability
TimestampFields(schema) ==
  Cardinality({i \in 1..Len(schema) : schema[i].is_timestamp})

\* base_quality + timestamp_bonus + field_bonus - sample_penalty, capped
EstimatedQuality(detection_result, sample_penalty) ==
  LET bonuses == RAdd(RMin(Rat(TimestampFields(detection_result.schema), 10), <<1, 5>>),
                      RMin(Rat(Len(detection_result.schema), 20), <<3, 10>>))
      gross == RAdd(detection_result.confidence, bonuses)
  IN RMin(Rat(gross[1] * sample_penalty[2] - sample_penalty[1] * gross[2],
              gross[2] * sample_penalty[2]),
          One)

Validation(detection_result, can_parse, quality, warnings) ==
  [ can_parse |-> can_parse, format_type |-> detection_result.format_type,
    detection_confidence |-> detection_result.confidence,
    estimated_parse_quality |-> quality, warnings |-> warnings,
    field_count |-> Len(detection_result.schema) ]

\* a validation that takes no account of the sample size
validate_parsing_capability_unpenalized(detection_result) ==
  IF detection_result.format_type \notin RegisteredFormats
  THEN Validation(detection_result, FALSE, Zero, <<"cannot parse">>)
  ELSE Validation(detection_result, TRUE,
                  EstimatedQuality(detection_result, Zero), << >>)

validate_parsing_capability(detection_result) ==
  IF detection_result.format_type = "unknown"
  THEN Validation(detection_result, FALSE, Zero,
                  <<"Format is unknown - cannot parse">>)
  ELSE IF detection_result.format_type \notin RegisteredFormats
  THEN Validation(detection_result, FALSE, Zero,
                  <<"No parser available for format">>)
  ELSE LET few == Len(detection_result.sample_lines) < 3
           quality == EstimatedQuality(detection_result,
                                       IF few THEN <<1, 10>> ELSE Zero)
       IN Validation(detection_result, TRUE, quality,
            (IF few THEN <<"Limited sample size may affect parsing accuracy">>
             ELSE << >>)
            \o (IF RLt(quality, <<7, 10>>)
                THEN <<"Low estimated parsing quality - expect parsing errors">>
                ELSE << >>))

\* ======================================================================
\* inference/timestamp_detector.py: TimestampDetector.detect_timestamp.
\* A text is modelled by what the catalog's regular expressions find in it
\* and what _parse_timestamp makes of each find: a set of matches, each
\* with its pattern (index into TIMESTAMP_PATTERNS), its span [start, end)
\* and its parse outcome.  parsed = "datetime" is a parse that returned an
\* instant (dt; aware says whether it carries a tzinfo) and a confidence;
\* parsed = "None" is the ValueError path of _parse_timestamp; parsed =
\* "raised" is any other exception, swallowed in detect_timestamp.
\* ======================================================================

\* the catalog, in order, as the format of each pattern
TIMESTAMP_PATTERNS == <<"%Y-%m-%dT%H:%M:%S%z", "%Y-%m-%d %H:%M:%S">>

\* a format with %z yields an aware instant, or a naive one from the
\* fallback of _parse_with_timezone; every other format here a naive one
Awareness(format) ==
  IF format = "%Y-%m-%dT%H:%M:%S%z" THEN {TRUE, FALSE} ELSE {FALSE}

Match(pattern, start, end, parsed, dt, aware, confidence) ==
  [ pattern |-> pattern, start |-> start, end |-> end, parsed |-> parsed,
    dt |-> dt, aware |-> aware, confidence |-> confidence ]

OverlapsPastStart(m, found_positions) ==
  \E pos \in found_positions : pos > m.start /\ pos < m.end

\* some position of range(start, end) is already claimed
Overlaps(m, found_positions) ==
  \E pos \in found_positions : pos >= m.start /\ pos < m.end

\* re.finditer yields one pattern's matches left to right, and the pattern
\* loop takes the patterns in catalog order
IterBefore(a, b) ==
  \/ a.pattern < b.pattern
  \/ a.pattern = b.pattern /\ a.start < b.start

RECURSIVE FindIter(_)
FindIter(matches) ==
  IF matches = {} THEN << >>
  ELSE LET first == CHOOSE m \in matches :
                      \A o \in matches \ {m} : IterBefore(m, o)
       IN <<first>> \o FindIter(matches \ {first})

\* one pass of the inner loop body on a match
Accepts(m, found_positions) ==
  /\ ~Overlaps(m, found_positions)
  /\ m.parsed = "datetime"

TimestampResult(m) ==
  [ dt |-> m.dt, aware |-> m.aware, format |-> TIMESTAMP_PATTERNS[m.pattern],
    confidence |-> m.confidence, start |-> m.start, end |-> m.end ]

RECURSIVE Collect(_, _, _, _)
Collect(ms, i, results, found_positions) ==
  IF i > Len(ms) THEN results
  ELSE IF Accepts(ms[i], found_positions)
       THEN Collect(ms, i + 1, Append(results, TimestampResult(ms[i])),
                    found_positions \cup (ms[i].start .. (ms[i].end - 1)))
       ELSE Collect(ms, i + 1, results, found_positions)

\* the sort key (-x[2], x[0]): confidence descending, then the instant
KeyBefore(a, b) ==
  \/ RLt(b.confidence, a.confidence)
  \/ a.confidence = b.confidence /\ a.dt < b.dt

\* comparing an aware with a naive datetime raises TypeError; the sort
\* compares two keys' instants when their confidences are equal
SortRaises(results) ==
  \E i, j \in 1..Len(results) :
     /\ results[i].confidence = results[j].confidence
     /\ results[i].aware # results[j].aware

\* list.sort is stable: among equal keys the earlier element stays first
RECURSIVE SortResults(_)
SortResults(results) ==
  IF results = << >> THEN << >>
  ELSE LET k == CHOOSE i \in 1..Len(results) :
                  /\ \A j \in 1..Len(results) : ~KeyBefore(results[j], results[i])
                  /\ \A j \in 1..(i - 1) : KeyBefore(results[i], results[j])
       IN <<results[k]>> \o
          SortResults([ n \in 1..(Len(results) - 1) |->
                          IF n < k THEN results[n] ELSE results[n + 1] ])

detect_timestamp(matches) ==
  LET results == Collect(FindIter(matches), 1, << >>, {})
  IN IF SortRaises(results)
     THEN [ status |-> "TypeError", results |-> << >> ]
     ELSE [ status |-> "ok", results |-> SortResults(results) ]

NoText ==
  [ op |-> "none", text |-> {}, status |-> None, results |-> << >> ]

\* ======================================================================
\* search/search_engine.py: LogSearchEngine.
\* A string is a sequence of characters; an optional value is << >> for
\* None and <<x>> for the value x.  An indexed entry has a fields map
\* (a function from some field names to optional strings), a raw_line and
\* an optional timestamp in minutes.  Positions in the entry list are
\* counted from 0, as the code counts them.
\* ======================================================================
Nothing == << >>

Some(x) == <<x>>

\* str.lower on one character
LowerChar(c) == IF c = "A" THEN "a" ELSE IF c = "B" THEN "b" ELSE c

lower(s) == [ i \in 1..Len(s) |-> LowerChar(s[i]) ]

\* sub in s
Contains(sub, s) ==
  \E i \in 0..(Len(s) - Len(sub)) : SubSeq(s, i + 1, i + Len(sub)) = sub

StartsWith(sub, s) == Len(sub) <= Len(s) /\ SubSeq(s, 1, Len(sub)) = sub

\* re.compile: an unbalanced parenthesis is re.error
ReError(pattern) == \E i \in 1..Len(pattern) : pattern[i] = "("

\* bool(re.search(pattern, s, flags)) for a pattern of literal characters
\* with an optional leading ^
re_search(pattern, s, ignorecase) ==
  LET p    == IF ignorecase THEN lower(pattern) ELSE pattern
      text == IF ignorecase THEN lower(s) ELSE s
  IN IF p # << >> /\ p[1] = "^"
     THEN StartsWith(Tail(p), text)
     ELSE Contains(p, text)

\* float(s): the number of a one-digit string, ValueError (Nothing) else
FloatOf(s) ==
  IF s = <<"1">> THEN Some(1)
  ELSE IF s = <<"2">> THEN Some(2)
  ELSE IF s = <<"3">> THEN Some(3)
  ELSE Nothing

SearchFilter(field_name, value, operator, case_sensitive) ==
  [ field_name |-> field_name, value |-> value, operator |-> operator,
    case_sensitive |-> case_sensitive ]

TimeFilter(start_time, end_time, last_hours, last_minutes) ==
  [ start_time |-> start_time, end_time |-> end_time,
    last_hours |-> last_hours, last_minutes |-> last_minutes ]

SearchQuery(text, filters, time_filter, limit, offset) ==
  [ text |-> text, filters |-> filters, time_filter |-> time_filter,
    limit |-> limit, offset |-> offset ]

\* truth value of an optional integer: None and 0 are both false
Truthy(opt) == opt # Nothing /\ opt[1] # 0

\* ---- LogSearchEngine._build_field_index: per field name, the pairs
\* (position, str(value).lower()) of the entries whose value is not None
build_field_index(entries, field_name) ==
  LET Indexed(i) == /\ field_name \in DOMAIN entries[i + 1].fields
                    /\ entries[i + 1].fields[field_name] # Nothing
      RECURSIVE From(_)
      From(i) ==
        IF i >= Len(entries) THEN << >>
        ELSE IF Indexed(i)
             THEN << <<i, lower(entries[i + 1].fields[field_name][1])>> >>
                  \o From(i + 1)
             ELSE From(i + 1)
  IN From(0)

\* ---- LogSearchEngine._build_timestamp_index: the pairs (position,
\* timestamp) of the entries that have one, sorted by timestamp (stable)
build_timestamp_index(entries) ==
  LET Stamped == { i \in 0..(Len(entries) - 1) : entries[i + 1].timestamp # Nothing }
      At(i) == entries[i + 1].timestamp[1]
      RECURSIVE Sorted(_)
      Sorted(rest) ==
        IF rest = {} THEN << >>
        ELSE LET first == CHOOSE i \in rest : \A j \in rest \ {i} :
                             At(i) < At(j) \/ (At(i) = At(j) /\ i < j)
             IN << <<first, At(first)>> >> \o Sorted(rest \ {first})
  IN Sorted(Stamped)

\* ---- LogSearchEngine._numeric_compare
numeric_compare(field_value, target, operator) ==
  IF field_value = Nothing THEN FALSE
  ELSE LET field_num  == FloatOf(field_value[1])
           target_num == FloatOf(target)
       IN IF field_num = Nothing \/ target_num = Nothing THEN FALSE
          ELSE IF operator = "gt" THEN field_num[1] > target_num[1]
          ELSE IF operator = "lt" THEN field_num[1] < target_num[1]
          ELSE IF operator = "gte" THEN field_num[1] >= target_num[1]
          ELSE IF operator = "lte" THEN field_num[1] <= target_num[1]
          ELSE FALSE

\* the value _match_filter compares: the indexed value of the entry when
\* the filter is not case sensitive, and else fields.get(field_name, "")
\* of the entry at position 0
ComparedValue(entries, field_value, filter_obj) ==
  IF ~filter_obj.case_sensitive THEN Some(field_value)
  ELSE IF filter_obj.field_name \in DOMAIN entries[1].fields
  THEN entries[1].fields[filter_obj.field_name]
  ELSE Some(<< >>)

Target(filter_obj) ==
  IF ~filter_obj.case_sensitive THEN lower(filter_obj.value) ELSE filter_obj.value

\* `target in None` and re.search(target, None) raise TypeError
MatchRaises(entries, field_value, filter_obj) ==
  /\ ComparedValue(entries, field_value, filter_obj) = Nothing
  /\ \/ filter_obj.operator = "contains"
     \/ filter_obj.operator = "regex" /\ ~ReError(Target(filter_obj))

\* ---- LogSearchEngine._match_filter
match_filter(entries, field_value, filter_obj) ==
  LET target   == Target(filter_obj)
      compared == ComparedValue(entries, field_value, filter_obj)
  IN IF filter_obj.operator = "contains"
     THEN compared # Nothing /\ Contains(target, compared[1])
     ELSE IF filter_obj.operator = "equals"
     THEN compared = Some(target)
     ELSE IF filter_obj.operator = "regex"
     THEN /\ ~ReError(target)
          /\ compared # Nothing
          /\ re_search(target, compared[1], ~filter_obj.case_sensitive)
     ELSE IF filter_obj.operator \in {"gt", "lt", "gte", "lte"}
     THEN numeric_compare(compared, target, filter_obj.operator)
     ELSE FALSE

\* ---- LogSearchEngine._apply_filter
apply_filter(entries, filter_obj) ==
  LET index == build_field_index(entries, filter_obj.field_name)
  IN { index[k][1] : k \in { n \in 1..Len(index) :
                               match_filter(entries, index[n][2], filter_obj) } }

FilterRaises(entries, filter_obj) ==
  LET index == build_field_index(entries, filter_obj.field_name)
  IN \E k \in 1..Len(index) : MatchRaises(entries, index[k][2], filter_obj)

\* ---- LogSearchEngine._text_search
text_search(entries, text) ==
  LET text_lower == lower(text)
  IN { i \in 0..(Len(entries) - 1) :
         \/ Contains(text_lower, lower(entries[i + 1].raw_line))
         \/ \E name \in DOMAIN entries[i + 1].fields :
               LET value == entries[i + 1].fields[name]
               IN /\ value # Nothing
                  /\ value[1] # << >>
                  /\ Contains(text_lower, lower(value[1])) }

\* ---- LogSearchEngine._apply_time_filter; now is datetime.now()
apply_time_filter(entries, time_filter, now) ==
  LET end_time   == IF Truthy(time_filter.last_hours) \/ Truthy(time_filter.last_minutes)
                    THEN Some(now) ELSE time_filter.end_time
      start_time == IF Truthy(time_filter.last_hours)
                    THEN Some(now - 60 * time_filter.last_hours[1])
                    ELSE IF Truthy(time_filter.last_minutes)
                    THEN Some(now - time_filter.last_minutes[1])
                    ELSE time_filter.start_time
      index      == build_timestamp_index(entries)
      RECURSIVE Scan(_)
      Scan(k) ==
        IF k > Len(index) THEN {}
        ELSE IF start_time # Nothing /\ index[k][2] < start_time[1]
             THEN Scan(k + 1)
             ELSE IF end_time # Nothing /\ index[k][2] > end_time[1]
                  THEN {}
                  ELSE {index[k][1]} \cup Scan(k + 1)
  IN IF start_time = Nothing /\ end_time = Nothing
     THEN 0..(Len(entries) - 1)
     ELSE Scan(1)

\* sorted(list(matches))
RECURSIVE SortedList(_)
SortedList(matches) ==
  IF matches = {} THEN << >>
  ELSE LET first == CHOOSE i \in matches : \A j \in matches : i <= j
       IN <<first>> \o SortedList(matches \ {first})

\* matches[offset:] and matches[:limit] for non-negative bounds
SliceFrom(list, offset) ==
  IF offset >= Len(list) THEN << >> ELSE SubSeq(list, offset + 1, Len(list))

SliceTo(list, limit) ==
  IF limit >= Len(list) THEN list ELSE SubSeq(list, 1, limit)

RECURSIVE FilterMatches(_, _, _)
FilterMatches(entries, filters, k) ==
  IF k > Len(filters) THEN 0..(Len(entries) - 1)
  ELSE apply_filter(entries, filters[k]) \cap FilterMatches(entries, filters, k + 1)

SearchResult(status, matches, total_matches) ==
  [ status |-> status, matches |-> matches, total_matches |-> total_matches ]

\* ---- LogSearchEngine.search; matches are the positions of the returned
\* entries, in the order returned
search(entries, query, now) ==
  IF entries = << >> THEN SearchResult("ok", << >>, 0)
  ELSE IF \E k \in 1..Len(query.filters) : FilterRaises(entries, query.filters[k])
  THEN SearchResult("TypeError", << >>, 0)
  ELSE LET all     == 0..(Len(entries) - 1)
           by_text == IF query.text # << >> THEN text_search(entries, query.text) ELSE all
           by_time == IF query.time_filter # Nothing
                      THEN apply_time_filter(entries, query.time_filter[1], now)
                      ELSE all
           matches == SortedList(by_text \cap FilterMatches(entries, query.filters, 1)
                                 \cap by_time)
           paged   == IF Truthy(query.offset) THEN SliceFrom(matches, query.offset[1])
                      ELSE matches
       IN SearchResult("ok",
                       IF Truthy(query.limit) THEN SliceTo(paged, query.limit[1]) ELSE paged,
                       Len(matches))

NoSearch ==
  [ entries |-> << >>, op |-> "none", query |-> Nothing,
    result |-> SearchResult(None, << >>, 0) ]

\* ======================================================================
\* tui.py: SearchForm and LogExplorerTUI key handling.
\* A key is its curses code; a string typed into the form is the sequence
\* of the codes of its characters (chr is one-to-one).  No file has been
\* processed: parse_result and search_results are None.
\* ======================================================================
KEY_DOWN == 258

KEY_UP == 259

KEY_BACKSPACE == 263

KEY_NPAGE == 338

KEY_PPAGE == 339

KEY_BTAB == 353

\* ord(c) of the characters the handlers name
Ord(c) ==
  CASE c = "\t" -> 9   [] c = "\n" -> 10  [] c = "\r" -> 13  [] c = " " -> 32
    [] c = "0" -> 48   [] c = "1" -> 49   [] c = "B" -> 66   [] c = "F" -> 70
    [] c = "a" -> 97   [] c = "b" -> 98   [] c = "c" -> 99   [] c = "f" -> 102
    [] c = "j" -> 106  [] c = "k" -> 107  [] c = "p" -> 112  [] c = "q" -> 113
    [] c = "r" -> 114  [] c = "v" -> 118

tabs == <<"Files", "Search", "Stats", "Plots", "Help">>

field_order ==
  <<"text_query", "field_name", "field_value", "operator", "case_sensitive",
    "start_time", "end_time", "last_hours", "last_minutes", "limit", "offset">>

text_fields ==
  {"text_query", "field_name", "field_value", "start_time", "end_time",
   "last_hours", "last_minutes", "limit", "offset"}

operators == <<"contains", "equals", "regex", "gt", "gte", "lt", "lte">>

\* ---- SearchForm.__init__
SearchForm ==
  [ fields |-> [ text_query |-> << >>, field_name |-> << >>, field_value |-> << >>,
                 operator |-> "contains", case_sensitive |-> FALSE,
                 start_time |-> << >>, end_time |-> << >>, last_hours |-> << >>,
                 last_minutes |-> << >>,
                 limit |-> <<Ord("1"), Ord("0"), Ord("0")>>,
                 offset |-> <<Ord("0")>> ],
    current_field |-> 0,
    input_mode |-> FALSE,
    input_buffer |-> << >> ]

FieldKey(form) == field_order[form.current_field + 1]

\* ---- SearchForm.is_current_field_text
is_current_field_text(form) == FieldKey(form) \in text_fields

\* ---- SearchForm.enter_input_mode; initial_char is optional
enter_input_mode(form, initial_char) ==
  IF ~is_current_field_text(form) THEN form
  ELSE [form EXCEPT !.input_mode = TRUE,
                    !.input_buffer = IF initial_char # Nothing
                                     THEN <<initial_char[1]>>
                                     ELSE form.fields[FieldKey(form)]]

\* ---- SearchForm.exit_input_mode
exit_input_mode(form, save) ==
  IF ~form.input_mode THEN form
  ELSE [form EXCEPT !.fields = IF save
                               THEN [@ EXCEPT ![FieldKey(form)] = form.input_buffer]
                               ELSE @,
                    !.input_mode = FALSE,
                    !.input_buffer = << >>]

Handled(state, handled) == [ state |-> state, handled |-> handled ]

OperatorIndex(name) == CHOOSE i \in 1..Len(operators) : operators[i] = name

\* ---- SearchForm._handle_navigation_mode
handle_navigation_mode(form, key) ==
  IF key = KEY_BTAB
  THEN Handled([form EXCEPT !.current_field = (@ + 1) % Len(field_order)], TRUE)
  ELSE IF key \in {KEY_UP, Ord("k")}
  THEN Handled([form EXCEPT !.current_field = IF @ - 1 < 0 THEN 0 ELSE @ - 1], TRUE)
  ELSE IF key \in {KEY_DOWN, Ord("j")}
  THEN Handled([form EXCEPT !.current_field =
                  IF @ + 1 > Len(field_order) - 1 THEN Len(field_order) - 1 ELSE @ + 1],
               TRUE)
  ELSE IF key = Ord(" ")
  THEN Handled(IF FieldKey(form) = "case_sensitive"
               THEN [form EXCEPT !.fields.case_sensitive = ~@]
               ELSE IF FieldKey(form) = "operator"
               THEN [form EXCEPT !.fields.operator =
                       operators[(OperatorIndex(@) % Len(operators)) + 1]]
               ELSE form,
               TRUE)
  ELSE IF key \in {KEY_BACKSPACE, 127, 8}
  THEN Handled(IF FieldKey(form) = "case_sensitive"
               THEN [form EXCEPT !.fields.case_sensitive = FALSE]
               ELSE IF FieldKey(form) = "operator"
               THEN [form EXCEPT !.fields.operator = "contains"]
               ELSE [form EXCEPT !.fields[FieldKey(form)] = << >>],
               TRUE)
  ELSE IF key \in {Ord("\n"), Ord("\r"), 10}
  THEN Handled(enter_input_mode(form, Nothing), TRUE)
  ELSE IF 32 <= key /\ key <= 126
  THEN Handled(enter_input_mode(form, Some(key)), TRUE)
  ELSE Handled(form, FALSE)

\* ---- SearchForm._handle_input_mode
handle_input_mode(form, key) ==
  IF key = 27
  THEN Handled(exit_input_mode(form, FALSE), TRUE)
  ELSE IF key \in {Ord("\n"), Ord("\r"), 10}
  THEN Handled(exit_input_mode(form, TRUE), TRUE)
  ELSE IF key \in {KEY_BACKSPACE, 127, 8}
  THEN Handled([form EXCEPT !.input_buffer =
                  IF @ # << >> THEN SubSeq(@, 1, Len(@) - 1) ELSE @], TRUE)
  ELSE IF key = 21
  THEN Handled([form EXCEPT !.input_buffer = << >>], TRUE)
  ELSE IF 32 <= key /\ key <= 126
  THEN Handled([form EXCEPT !.input_buffer = Append(@, key)], TRUE)
  ELSE Handled(form, FALSE)

\* ---- SearchForm.handle_input
SearchForm_handle_input(form, key) ==
  IF form.input_mode THEN handle_input_mode(form, key)
  ELSE handle_navigation_mode(form, key)

\* ---- LogExplorerTUI.__init__; key is the key last read and handled what
\* handle_input returned for it (the run loop ends on False), presses the
\* number of keys read
NoTui ==
  [ current_tab |-> 0,
    search_form |-> SearchForm,
    show_raw_lines |-> FALSE,
    scroll_positions |-> [ main |-> 0, results |-> 0, field_values |-> 0, files |-> 0 ],
    error_message |-> "",
    key |-> Nothing,
    handled |-> TRUE,
    presses |-> 0 ]

\* ---- ScrollableContent.scroll; max_items is optional
scroll(app, content_type, delta, max_items) ==
  LET new_pos == app.scroll_positions[content_type] + delta
      top     == IF max_items # Nothing /\ new_pos > max_items[1] - 1
                 THEN max_items[1] - 1 ELSE new_pos
  IN [app EXCEPT !.scroll_positions[content_type] = IF top < 0 THEN 0 ELSE top]

\* ---- LogExplorerTUI._reset_scroll_positions
reset_scroll_positions(app) ==
  [app EXCEPT !.scroll_positions = [ name \in DOMAIN @ |-> 0 ]]

\* ---- LogExplorerTUI._handle_scroll; search_results is None
handle_scroll(app, key) ==
  IF app.current_tab = 1
  THEN IF key = KEY_PPAGE THEN scroll(app, "results", -10, Some(0))
       ELSE IF key = KEY_NPAGE THEN scroll(app, "results", 10, Some(0))
       ELSE app
  ELSE IF key = KEY_PPAGE THEN scroll(app, "main", -10, Nothing)
       ELSE IF key = KEY_NPAGE THEN scroll(app, "main", 10, Nothing)
       ELSE app

\* ---- LogExplorerTUI._execute_search; parse_result is None
execute_search(app) == [app EXCEPT !.error_message = "No file processed yet"]

WithForm(app, result) ==
  Handled([app EXCEPT !.search_form = result.state], result.handled)

\* ---- LogExplorerTUI._handle_search_input
handle_search_input(app, key) ==
  IF app.search_form.input_mode
  THEN WithForm(app, SearchForm_handle_input(app.search_form, key))
  ELSE IF key = Ord("v")
  THEN Handled([app EXCEPT !.show_raw_lines = ~@], TRUE)
  ELSE IF key \in {Ord("f"), Ord("F")}
  THEN Handled(app, TRUE)
  ELSE IF key \in {Ord("b"), Ord("B")}
  THEN Handled(scroll(app, "field_values", -1, Nothing), TRUE)
  ELSE IF key \in {Ord("\n"), Ord("\r"), 10}
  THEN IF FieldKey(app.search_form) \notin text_fields
       THEN Handled(execute_search(app), TRUE)
       ELSE WithForm(app, SearchForm_handle_input(app.search_form, key))
  ELSE WithForm(app, SearchForm_handle_input(app.search_form, key))

\* ---- LogExplorerTUI._handle_scroll_only_input
handle_scroll_only_input(app, key) ==
  IF key = KEY_UP THEN Handled(scroll(app, "main", -1, Nothing), TRUE)
  ELSE IF key = KEY_DOWN THEN Handled(scroll(app, "main", 1, Nothing), TRUE)
  ELSE Handled(app, TRUE)

\* the keys of the Files tab that read the directory or a file
FileKeys == {KEY_UP, KEY_DOWN, Ord("\n"), Ord("\r"), Ord("c"), Ord("r"), Ord("p")}

\* ---- LogExplorerTUI._handle_files_input for the keys outside FileKeys
handle_files_input(app, key) == Handled(app, TRUE)

\* ---- LogExplorerTUI._handle_tab_specific_input
handle_tab_specific_input(app, key) ==
  IF app.current_tab = 0 THEN handle_files_input(app, key)
  ELSE IF app.current_tab = 1 THEN handle_search_input(app, key)
  ELSE IF app.current_tab \in {2, 3, 4} THEN handle_scroll_only_input(app, key)
  ELSE Handled(app, TRUE)

\* ---- LogExplorerTUI.handle_input
handle_input(app, key) ==
  IF key = Ord("q") THEN Handled(app, FALSE)
  ELSE IF key = 27
  THEN IF app.current_tab = 1 /\ app.search_form.input_mode
       THEN Handled([app EXCEPT !.search_form =
                       SearchForm_handle_input(app.search_form, key).state], TRUE)
       ELSE Handled(app, TRUE)
  ELSE IF key = Ord("\t") \/ key = 9
  THEN IF app.current_tab = 1 /\ app.search_form.input_mode
       THEN Handled(app, TRUE)
       ELSE Handled(reset_scroll_positions(
                      [app EXCEPT !.current_tab = (@ + 1) % Len(tabs)]), TRUE)
  ELSE IF key = KEY_BTAB
  THEN IF app.current_tab = 1
       THEN WithForm(app, SearchForm_handle_input(app.search_form, key))
       ELSE Handled(reset_scroll_positions(
                      [app EXCEPT !.current_tab = (@ - 1) % Len(tabs)]), TRUE)
  ELSE IF key \in {KEY_PPAGE, KEY_NPAGE}
  THEN Handled(handle_scroll(app, key), TRUE)
  ELSE handle_tab_specific_input(app, key)

\* ---- LogExplorerTUI.draw_status_bar: the error message is shown once
draw_status_bar(app) == [app EXCEPT !.error_message = ""]

\* ======================================================================
\* inference/timestamp_detector.py: TimestampDetector._calculate_final_confidence.
\* The matched text is modelled by what the function reads of it: its
\* length, whether it holds a ".", whether it holds four digits in a row.
\* The parsed instant is modelled by its distance from now in seconds.
\* ======================================================================
PatternInfo(name, specificity, has_timezone, has_microseconds) ==
  [ name |-> name, specificity |-> specificity, has_timezone |-> has_timezone,
    has_microseconds |-> has_microseconds ]

TimestampStr(length, has_dot, has_year) ==
  [ length |-> length, has_dot |-> has_dot, has_year |-> has_year ]

\* x + y for a y of either sign
RPlus(x, y) == Rat(x[1] * y[2] + y[1] * x[2], x[2] * y[2])

TenYears == 86400 * 365 * 10

FiftyYears == 86400 * 365 * 50

specificity_bonus(specificity) ==
  IF specificity = "high" THEN <<5, 100>>
  ELSE IF specificity = "medium" THEN <<2, 100>>
  ELSE Zero

\* penalty for timestamps too far in the future or past
TemporalFactor(time_diff) ==
  IF time_diff > TenYears THEN <<8, 10>>
  ELSE IF time_diff > FiftyYears THEN <<6, 10>>
  ELSE One

Clamp(confidence) ==
  IF confidence[1] < 0 THEN Zero ELSE IF RLt(One, confidence) THEN One ELSE confidence

\* pattern_info["name"].startswith("us_")
StartsWithUs(name) == name = "us_datetime"

calculate_final_confidence(base_confidence, timestamp_str, pattern_info, time_diff) ==
  LET specific == RPlus(base_confidence, specificity_bonus(pattern_info.specificity))
      zoned    == IF pattern_info.has_timezone THEN RPlus(specific, <<3, 100>>) ELSE specific
      micro    == IF pattern_info.has_microseconds /\ timestamp_str.has_dot
                  THEN RPlus(zoned, <<2, 100>>) ELSE zoned
      us       == IF StartsWithUs(pattern_info.name) THEN RPlus(micro, <<-5, 100>>) ELSE micro
      scaled   == RMul(us, TemporalFactor(time_diff))
      sized    == IF 19 <= timestamp_str.length /\ timestamp_str.length <= 35
                  THEN RPlus(scaled, <<2, 100>>)
                  ELSE IF timestamp_str.length < 10 THEN RPlus(scaled, <<-5, 100>>)
                  ELSE scaled
      year     == IF timestamp_str.has_year THEN RPlus(sized, <<1, 100>>) ELSE sized
  IN Clamp(year)

\* ======================================================================
\* inference/log_core.py: FieldInfo.sample_values and FieldInfo.frequency,
\* and the four places that write them.  A schema here is the dict's items
\* in insertion order, each a FieldInfo reduced to its name, its sample
\* values and its frequency.
\* ======================================================================
max_samples == 10

SampledFieldInfo(name) ==
  [ name |-> name, sample_values |-> << >>, frequency |-> 0 ]

\* an add that forgets the membership test
add_sample_value_repeating(field_info, value, max) ==
  IF Len(field_info.sample_values) < max
  THEN [field_info EXCEPT !.sample_values = Append(@, value)]
  ELSE field_info

\* ---- FieldInfo.add_sample_value
add_sample_value(field_info, value, max) ==
  IF Len(field_info.sample_values) < max /\ ~InSeq(value, field_info.sample_values)
  THEN [field_info EXCEPT !.sample_values = Append(@, value)]
  ELSE field_info

\* ---- FieldInfo.update_frequency
update_frequency(field_info) == [field_info EXCEPT !.frequency = @ + 1]

\* `if field_name not in schema: schema[field_name] = FieldInfo(...)`, then
\* update_frequency() and add_sample_value(value) on schema[field_name]
Sampled(fields, field_name, value) ==
  LET present == IF InSchema(fields, field_name) THEN fields
                 ELSE Append(fields, SampledFieldInfo(field_name))
      i       == FieldIndex(present, field_name)
  IN [present EXCEPT ![i] = add_sample_value(update_frequency(@), value, max_samples)]

\* ---- SchemaManager.update_field_info and
\* WebLogDetectorMixin._update_field_schema: an empty value or "-" is skipped
update_field_info_samples(fields, field_name, value) ==
  IF value = "" \/ value = "-" THEN fields ELSE Sampled(fields, field_name, value)

\* ---- FormatDetectionResult.update_field_schema: every value counts
update_field_schema(fields, field_name, value) == Sampled(fields, field_name, value)

\* list(set(values)): the distinct values, in an order the interpreter
\* chooses; rotation (taken modulo their number) picks the one that
\* comes first
Distinct(values, rotation) ==
  LET firsts == { i \in 1..Len(values) : \A j \in 1..(i - 1) : values[j] # values[i] }
      Nth(k)  == CHOOSE i \in firsts : Cardinality({ j \in firsts : j < i }) = k - 1
      n       == Cardinality(firsts)
  IN [ k \in 1..n |-> values[Nth(((k - 1 + rotation) % n) + 1)] ]

\* ---- CustomDelimitedDetector._build_delimited_schema: columns[idx] is
\* field_data[idx - 1]["values"]
build_delimited_schema_samples(columns, rotations) ==
  [ idx \in 1..Len(columns) |->
      [ name |-> FieldName(idx),
        sample_values |-> SeqHead(Distinct(columns[idx], rotations[idx]), 10),
        frequency |-> Len(columns[idx]) ] ]

NoSchema == [ op |-> "none", fields |-> << >> ]

\* ======================================================================
\* Inference: a caller reads lines (analyze_file reads up to 1000), then
\* runs the engine or a single detector on them.
\* ======================================================================
DetectorNames == {Detectors[i] : i \in 1..Len(Detectors)}

\* Detectors whose detect raises on an input.  JSONDetector lets anything
\* but JSONDecodeError and TypeError escape json.loads; every detector's
\* preprocess_lines calls strip() outside any try, and the detectors stop
\* reading at different line counts (50, 100, 200), so a bad element can
\* reach all of them, all but the two that read 50, or the journal detector
\* alone.
RaisingSets ==
  { {}, {"JSONDetector"}, {"SystemdJournalDetector"},
    DetectorNames \ {"JSONDetector", "CSVDetector"}, DetectorNames }

Idle ==
  [ op |-> "none", detector |-> None, raising |-> {},
    result |-> FormatDetectionResult("unknown", Zero, << >>, << >>, NoMetadata) ]

NoOutput ==
  [ op |-> "none", status |-> None, error |-> None, parser |-> NoParser,
    entries |-> << >>, total_lines |-> 0, successfully_parsed |-> 0,
    malformed_lines |-> 0, parse_statistics |-> << >>, validation |-> << >> ]

Init ==
  /\ catalog = InitialCatalog
  /\ det = Idle
  /\ out = NoOutput
  /\ inp = << >>
  /\ ts = NoText
  /\ se = NoSearch
  /\ tui = NoTui
  /\ sch = NoSchema

\* the caller reads one more line of the input
ReadLine(line, max) ==
  /\ Len(inp) < max
  /\ inp' = Append(inp, line)
  /\ det' = Idle
  /\ out' = NoOutput
  /\ UNCHANGED <<catalog, ts, se, tui, sch>>

\* the caller starts over with a new input
NewInput ==
  /\ inp # << >> \/ det # Idle \/ out # NoOutput
  /\ inp' = << >>
  /\ det' = Idle
  /\ out' = NoOutput
  /\ UNCHANGED <<catalog, ts, se, tui, sch>>

\* engine.analyze_lines(lines), once on the input read so far
AnalyzeLines(raising) ==
  /\ det.op = "none"
  /\ det' = [ op |-> "analyze_lines", detector |-> None, raising |-> raising,
              result |-> analyze_lines(catalog, inp, raising) ]
  /\ UNCHANGED <<catalog, out, inp, ts, se, tui, sch>>

\* detector.detect(lines) called on its own
Detect(name) ==
  /\ det.op = "none"
  /\ det' = [ op |-> "detect", detector |-> name, raising |-> {},
              result |-> detect(name, catalog, inp) ]
  /\ UNCHANGED <<catalog, out, inp, ts, se, tui, sch>>

InferLines ==
  { LineBlank, LineApacheCombined, LineWebBadTime, LineSyslog3164, LineJson,
    LineGarbage }

NextInfer ==
  \/ \E line \in InferLines : ReadLine(line, MaxLines)
  \/ NewInput
  \/ \E raising \in RaisingSets : AnalyzeLines(raising)
  \/ \E name \in DetectorNames : Detect(name)

SpecInfer == Init /\ [][NextInfer]_vars

\* A longer input of lines that few detectors accept, for the result the
\* engine builds when nothing passes.
UnknownLines == {LineBlank, LineJsonScalar, LineGarbage}

NextUnknown ==
  \/ \E line \in UnknownLines : ReadLine(line, MaxUnknownLines)
  \/ NewInput
  \/ \E raising \in RaisingSets : AnalyzeLines(raising)

SpecUnknown == Init /\ [][NextUnknown]_vars

\* ======================================================================
\* Parsing: a detection result (from analyze_file on a sample, or built by
\* the caller) is handed to the parsing engine.  The catalog is module
\* state and outlives every call.
\* ======================================================================
\* the files the engine is run on, one representative line each
SampleFiles ==
  { <<LineApacheCombined>>, <<LineApacheVhost>>, <<LineWebBadTime>>,
    <<LineNginxError>>, <<LineSyslog3164>>, <<LineSyslogNoPri>>,
    <<LinePython>>, <<LineLevelOnly>>, <<LineBadLevel>>, <<LineJson>>,
    <<LineJournal>>, <<LineLtsv>>, <<LineJsonTime>> }

DeclaredSchema ==
  << FieldInfo("timestamp", "string", TRUE), FieldInfo("message", "string", FALSE),
     FieldInfo("status", "integer", FALSE) >>

\* detection results a caller builds: every format without schema, samples
\* and metadata; some with a schema and a delimiter; some with samples only
SuppliedResults ==
  { FormatDetectionResult(f, One, << >>, << >>, NoMetadata) : f \in LogFormat }
  \cup { FormatDetectionResult(f, One, DeclaredSchema, <<LineLtsv>>,
                               "delimiter" :> ";") :
           f \in {"unknown", "csv", "json", "key_value", "nginx_access"} }
  \cup { FormatDetectionResult(f, One, DeclaredSchema, <<LineBadLevel>>,
                               NoMetadata) :
           f \in {"csv", "custom_delimited", "syslog", "systemd_journal"} }

\* lines handed to parse_single_line; none has surrounding whitespace
SingleLines ==
  { LineApacheCombined, LineWebBadTime, LineNginxError, LineSyslog3164,
    LineSyslogNoPri, LineBadLevel, LineJson, LineJournal, LineGarbage,
    LineJsonBadTime }

CallerErrors == { <<"caller error", "">> }

\* how many times a parser construction has extended a catalog list
Extended(cat) ==
  (Len(cat["ApacheDetector"]) - Len(InitialCatalog["ApacheDetector"]))
     \div Len(InitialCatalog["ApacheDetector_EXTENDED"])
  + (Len(cat["NginxDetector"]) - Len(InitialCatalog["NginxDetector"]))
     \div Len(InitialCatalog["NginxDetector_ACCESS_ALT"])

\* engine.analyze_file(path) on a file holding these lines
AnalyzeFile(lines) ==
  /\ det.op = "none" /\ inp = << >> /\ out = NoOutput
  /\ inp' = lines
  /\ det' = [ op |-> "analyze_lines", detector |-> None, raising |-> {},
              result |->
                IF lines = << >>
                THEN FormatDetectionResult("unknown", Zero, << >>, << >>,
                                           "error" :> "Empty file")
                ELSE analyze_lines(catalog, lines, {}) ]
  /\ UNCHANGED <<catalog, out, ts, se, tui, sch>>

\* the caller builds a detection result
SupplyResult(result) ==
  /\ det.op = "none" /\ out = NoOutput
  /\ det' = [ op |-> "supplied", detector |-> None, raising |-> {},
              result |-> result ]
  /\ UNCHANGED <<catalog, out, inp, ts, se, tui, sch>>

\* parsing_engine.create_parser(detection_result)
CreateParser ==
  LET created == create_parser(catalog, det.result)
  IN /\ det.op # "none" /\ out = NoOutput
     /\ Extended(created.catalog) <= MaxExtend
     /\ out' = EngineOutput("create_parser", created, ParseResult(<< >>, << >>, << >>))
     /\ catalog' = created.catalog
     /\ UNCHANGED <<det, inp, ts, se, tui, sch>>

\* parsing_engine.parse_lines(lines, detection_result) on the lines read
ParseLines ==
  /\ det.op # "none" /\ out = NoOutput
  /\ Extended(create_parser(catalog, det.result).catalog) <= MaxExtend
  /\ out' = LogParsingEngine_parse_lines(catalog, inp, det.result)
  /\ catalog' = create_parser(catalog, det.result).catalog
  /\ UNCHANGED <<det, inp, ts, se, tui, sch>>

\* parsing_engine.parse_single_line(line, detection_result)
ParseSingleLine(line) ==
  /\ det.op # "none" /\ out = NoOutput
  /\ Extended(create_parser(catalog, det.result).catalog) <= MaxExtend
  /\ out' = LogParsingEngine_parse_single_line(catalog, line, det.result)
  /\ catalog' = create_parser(catalog, det.result).catalog
  /\ UNCHANGED <<det, inp, ts, se, tui, sch>>

\* parsing_engine.validate_parsing_capability(detection_result)
ValidateParsingCapability ==
  /\ det.op # "none" /\ out = NoOutput
  /\ out' = [NoOutput EXCEPT !.op = "validate_parsing_capability",
                             !.status = "ok",
                             !.validation = validate_parsing_capability(det.result)]
  /\ UNCHANGED <<catalog, det, inp, ts, se, tui, sch>>

\* the caller creates a ParsedLogEntry of its own
NewEntry(line) ==
  /\ det.op = "none" /\ inp = << >> /\ out = NoOutput
  /\ out' = [NoOutput EXCEPT !.op = "new_entry",
                             !.entries = <<ParsedLogEntry(<<line>>, 0)>>]
  /\ UNCHANGED <<catalog, det, inp, ts, se, tui, sch>>

\* entry.add_parse_error(error) on an entry the caller holds
AddParseError(k, error) ==
  /\ k \in 1..Len(out.entries)
  /\ Len(out.entries[k].parse_errors) < MaxErrors
  /\ out' = [out EXCEPT !.op = "add_parse_error",
                        !.entries[k] = add_parse_error(out.entries[k], error)]
  /\ UNCHANGED <<catalog, det, inp, ts, se, tui, sch>>

NextParse ==
  \/ \E lines \in SampleFiles : AnalyzeFile(lines)
  \/ \E result \in SuppliedResults : SupplyResult(result)
  \/ CreateParser
  \/ ParseLines
  \/ ValidateParsingCapability
  \/ \E line \in SingleLines : ParseSingleLine(line)
  \/ \E line \in SingleLines : NewEntry(line)
  \/ \E k \in 1..MaxParse, error \in CallerErrors : AddParseError(k, error)
  \/ NewInput

SpecParse == Init /\ [][NextParse]_vars

\* ======================================================================
\* Parsing a batch: the caller reads lines, blank ones among them, gets a
\* detection result for them or builds one, and has the batch parsed.
\* ======================================================================
OrderLines == {LineBlank, LineJournal, LineSyslog3164, LineGarbage}

\* one detection result for each parser class
OrderResults ==
  { FormatDetectionResult(f, One, DeclaredSchema, << >>, NoMetadata) :
      f \in { "json", "csv", "key_value", "apache_common", "syslog",
              "systemd_journal", "basic_log" } }

NextLines ==
  \/ \E line \in OrderLines : ReadLine(line, MaxParse)
  \/ NewInput
  \/ AnalyzeLines({})
  \/ \E result \in OrderResults : SupplyResult(result)
  \/ ParseLines

SpecLines == Init /\ [][NextLines]_vars

\* ======================================================================
\* A delimited file: a header row and data rows, detected and then parsed
\* with the detection result.
\* ======================================================================
CsvLines == {LineBlank, LineCsvHeader, LineCsvAlice, LineCsvBob}

NextCsv ==
  \/ \E line \in CsvLines : ReadLine(line, MaxCsvLines)
  \/ NewInput
  \/ AnalyzeLines({})
  \/ ParseLines

SpecCsv == Init /\ [][NextCsv]_vars

\* ======================================================================
\* Timestamp recognition: a caller composes a text, one timestamp-like
\* stretch at a time, and has it scanned.
\* ======================================================================
\* spans of the timestamp-like stretches of a text of four positions
Spans == { <<0, 2>>, <<1, 3>>, <<2, 4>> }

Instants == {1, 2}

ConfidenceLevels == { <<9, 10>>, <<7, 10>> }

\* what one pattern can find at a span
MatchesOf(pattern, span) ==
  { Match(pattern, span[1], span[2], parsed, 0, FALSE, Zero) :
      parsed \in {"None", "raised"} }
  \cup
  { Match(pattern, span[1], span[2], "datetime", x[1], x[2], x[3]) :
      x \in Instants \X Awareness(TIMESTAMP_PATTERNS[pattern]) \X ConfidenceLevels }

\* the text gains a stretch that one of the patterns matches; one
\* pattern's matches never overlap each other
WriteTimestamp(m) ==
  /\ Cardinality(ts.text) < MaxMatches
  /\ \A o \in ts.text :
        o.pattern = m.pattern => (o.end <= m.start \/ m.end <= o.start)
  /\ ts' = [NoText EXCEPT !.text = ts.text \cup {m}]
  /\ UNCHANGED <<catalog, det, out, inp, se, tui, sch>>

NewText ==
  /\ ts # NoText
  /\ ts' = NoText
  /\ UNCHANGED <<catalog, det, out, inp, se, tui, sch>>

DetectTimestamp ==
  /\ ts.op = "none"
  /\ ts' = [ op |-> "detect_timestamp", text |-> ts.text,
             status |-> detect_timestamp(ts.text).status,
             results |-> detect_timestamp(ts.text).results ]
  /\ UNCHANGED <<catalog, det, out, inp, se, tui, sch>>

NextTimestamp ==
  \/ \E pattern \in 1..Len(TIMESTAMP_PATTERNS) : \E span \in Spans :
       \E m \in MatchesOf(pattern, span) : WriteTimestamp(m)
  \/ NewText
  \/ DetectTimestamp

SpecTimestamp == Init /\ [][NextTimestamp]_vars

\* ======================================================================
\* Sampling: a caller reads lines, blank ones among them, and has a
\* detector's preprocess_lines cut the sample to max_lines.
\* ======================================================================
\* preprocess_lines(lines, max_lines) on the lines read
PreprocessLines(max_lines) ==
  /\ inp # << >> /\ det = Idle
  /\ det' = [ op |-> "preprocess_lines", detector |-> None, raising |-> {},
              max_lines |-> max_lines,
              result |-> preprocess_lines(inp, max_lines) ]
  /\ UNCHANGED <<catalog, out, inp, ts, se, tui, sch>>

NextPreprocess ==
  \/ \E line \in OrderLines : ReadLine(line, MaxLines)
  \/ NewInput
  \/ \E max_lines \in 1..MaxLines : PreprocessLines(max_lines)

SpecPreprocess == Init /\ [][NextPreprocess]_vars

\* ======================================================================
\* Search: a caller indexes a list of entries and runs queries on it.
\* ======================================================================
\* datetime.now() at the time of a search, in minutes
Now == 180

Entry(fields, raw_line, timestamp) ==
  [ fields |-> fields, raw_line |-> raw_line, timestamp |-> timestamp ]

EntryKinds ==
  { Entry([level |-> Some(<<"A", "b">>)], <<"A", "b">>, Some(100)),
    Entry([level |-> Some(<<"a", "b">>), host |-> Some(<<"2">>)],
          <<"a", "b", "2">>, Some(170)),
    Entry([level |-> Nothing, host |-> Some(<<"B">>)], <<"B">>, Nothing) }

EntryLists == UNION { [1..n -> EntryKinds] : n \in 0..MaxEntries }

FilterValues == { <<"A">>, <<"a", "b">>, <<"^", "a">>, <<"(">>, <<"1">> }

Operators == {"contains", "equals", "regex", "gt", "lte", "between"}

Filters ==
  { SearchFilter(x[1], x[2], x[3], x[4]) :
      x \in {"level", "host"} \X FilterValues \X Operators \X BOOLEAN }

TimeFilters ==
  { Nothing,
    Some(TimeFilter(Nothing, Nothing, Nothing, Nothing)),
    Some(TimeFilter(Some(120), Nothing, Nothing, Nothing)),
    Some(TimeFilter(Nothing, Some(100), Nothing, Nothing)),
    Some(TimeFilter(Some(100), Some(170), Nothing, Nothing)),
    Some(TimeFilter(Nothing, Nothing, Some(1), Nothing)),
    Some(TimeFilter(Nothing, Nothing, Some(0), Some(30))) }

\* QueryBuilder.field_equals, field_contains, regex_search and their like
SingleFilterQueries ==
  { SearchQuery(<< >>, <<f>>, Nothing, Nothing, Some(0)) : f \in Filters }

FilterLists ==
  { << >>,
    << SearchFilter("level", <<"a">>, "contains", FALSE) >>,
    << SearchFilter("level", <<"a">>, "contains", FALSE),
       SearchFilter("host", <<"1">>, "gt", FALSE) >> }

\* QueryBuilder.combined
CombinedQueries ==
  { SearchQuery(x[1], x[2], x[3], x[4], x[5]) :
      x \in { << >>, <<"b">> } \X FilterLists \X TimeFilters
            \X { Nothing, Some(0), Some(1), Some(2) }
            \X { Some(0), Some(1), Some(2) } }

IndexEntries(entries) ==
  /\ se.op # "search"
  /\ se' = [NoSearch EXCEPT !.entries = entries, !.op = "index_entries"]
  /\ UNCHANGED <<catalog, det, out, inp, ts, tui, sch>>

Search(query) ==
  /\ se.op # "search"
  /\ se' = [ entries |-> se.entries, op |-> "search", query |-> Some(query),
             result |-> search(se.entries, query, Now) ]
  /\ UNCHANGED <<catalog, det, out, inp, ts, tui, sch>>

\* the caller is done with the result of the last search
DropResult ==
  /\ se.op = "search"
  /\ se' = [ se EXCEPT !.op = IF se.entries = << >> THEN "none" ELSE "index_entries",
                       !.query = Nothing, !.result = NoSearch.result ]
  /\ UNCHANGED <<catalog, det, out, inp, ts, tui, sch>>

NextSearch ==
  \/ \E entries \in EntryLists : IndexEntries(entries)
  \/ \E query \in SingleFilterQueries \cup CombinedQueries : Search(query)
  \/ DropResult

SpecSearch == Init /\ [][NextSearch]_vars

\* ======================================================================
\* Timestamp confidence: _parse_timestamp hands a parsed match to
\* _calculate_final_confidence.
\* ======================================================================
BaseConfidences == { <<85, 100>>, <<98, 100>>, <<1, 100>> }

PatternInfos ==
  { PatternInfo(x[1], x[2], x[3], x[4]) :
      x \in {"us_datetime", "iso8601_basic"} \X {"high", "medium", "low"} \X BOOLEAN \X BOOLEAN }

TimestampStrs ==
  { TimestampStr(x[1], x[2], x[3]) : x \in {9, 10, 19, 36} \X BOOLEAN \X BOOLEAN }

TimeDiffs == { 0, TenYears, TenYears + 1, FiftyYears, FiftyYears + 1 }

CalculateFinalConfidence(base_confidence, timestamp_str, pattern_info, time_diff) ==
  /\ ts.op = "none"
  /\ ts.text = {}
  /\ ts' = [ op |-> "calculate_final_confidence", text |-> {}, status |-> None,
             results |-> << >>,
             base_confidence |-> base_confidence, timestamp_str |-> timestamp_str,
             pattern_info |-> pattern_info, time_diff |-> time_diff,
             confidence |-> calculate_final_confidence(base_confidence, timestamp_str,
                                                       pattern_info, time_diff) ]
  /\ UNCHANGED <<catalog, det, out, inp, se, tui, sch>>

NextConfidence ==
  \/ \E base_confidence \in BaseConfidences : \E timestamp_str \in TimestampStrs :
       \E pattern_info \in PatternInfos : \E time_diff \in TimeDiffs :
         CalculateFinalConfidence(base_confidence, timestamp_str, pattern_info, time_diff)
  \/ NewText

SpecConfidence == Init /\ [][NextConfidence]_vars

\* ======================================================================
\* Single detectors on inputs that mix the lines they count with lines
\* they do not.
\* ======================================================================
DetectLines ==
  { LineBlank, LineGarbage, LineJson, LineJsonScalar, LineJournal,
    LineApacheCommon, LineApacheCombined, LineApacheVhost }

CountingDetectors == {"JSONDetector", "ApacheDetector", "SystemdJournalDetector"}

NextDetect ==
  \/ \E line \in DetectLines : ReadLine(line, MaxLines)
  \/ NewInput
  \/ \E name \in CountingDetectors : Detect(name)

SpecDetect == Init /\ [][NextDetect]_vars

\* ======================================================================
\* Schemas: a detector builds a schema by calling the update operations on
\* an empty dict, one value at a time, or builds it in one piece from the
\* columns of a delimited sample.  Values are opaque texts, named by the
\* order in which a field first sees them.
\* ======================================================================
ValueTexts ==
  << "v1", "v2", "v3", "v4", "v5", "v6", "v7", "v8", "v9", "v10", "v11", "v12",
     "v13", "v14" >>

SchemaFieldNames == {"field_1", "status"}

SamplesOf(fields, field_name) ==
  IF InSchema(fields, field_name)
  THEN fields[FieldIndex(fields, field_name)].sample_values ELSE << >>

\* the calls counted so far, over all fields
Updates(fields) == SumSeq([i \in 1..Len(fields) |-> fields[i].frequency])

\* the values a field can be handed next: one it holds, or the next new one
NextValues(fields, field_name) ==
  { ValueTexts[k] : k \in 1..(Len(SamplesOf(fields, field_name)) + 1) }

UpdateFieldInfo(field_name, value) ==
  /\ sch.op # "build_delimited_schema"
  /\ Updates(sch.fields) < MaxUpdates
  /\ sch' = [ op |-> "update_field_info",
              fields |-> update_field_info_samples(sch.fields, field_name, value) ]
  /\ UNCHANGED <<catalog, det, out, inp, ts, se, tui>>

UpdateFieldSchema(field_name, value) ==
  /\ sch.op # "build_delimited_schema"
  /\ Updates(sch.fields) < MaxUpdates
  /\ sch' = [ op |-> "update_field_schema",
              fields |-> update_field_schema(sch.fields, field_name, value) ]
  /\ UNCHANGED <<catalog, det, out, inp, ts, se, tui>>

\* a column of rows values of which the first distinct are all different
\* and the rest repeat the first
Column(rows, distinct) ==
  [ i \in 1..rows |-> IF i <= distinct THEN ValueTexts[i] ELSE ValueTexts[1] ]

BuildDelimitedSchema(rows, distinct, rotations) ==
  /\ sch = NoSchema
  /\ sch' = [ op |-> "build_delimited_schema",
              fields |-> build_delimited_schema_samples(
                           [idx \in 1..2 |-> Column(rows, distinct[idx])], rotations) ]
  /\ UNCHANGED <<catalog, det, out, inp, ts, se, tui>>

\* the detector starts on a new, empty schema
NewSchema ==
  /\ sch # NoSchema
  /\ sch' = NoSchema
  /\ UNCHANGED <<catalog, det, out, inp, ts, se, tui>>

NextSchema ==
  \/ \E field_name \in SchemaFieldNames :
       \E value \in {"", "-"} \cup NextValues(sch.fields, field_name) :
         UpdateFieldInfo(field_name, value)
  \/ \E field_name \in SchemaFieldNames :
       \E value \in NextValues(sch.fields, field_name) :
         UpdateFieldSchema(field_name, value)
  \/ \E rows \in 1..MaxRows : \E first, second \in 1..rows :
       \E rotation \in 0..(rows - 1) :
         BuildDelimitedSchema(rows, <<first, second>>, <<rotation, rotation>>)
  \/ NewSchema

SpecSchema == Init /\ [][NextSchema]_vars

\* ======================================================================
\* Specification of the terminal interface: the run loop draws the screen
\* and hands the next key to handle_input, until handle_input returns False.
\* ======================================================================
Keys ==
  {Ord("q"), Ord("a"), 27, 10, 9, KEY_BACKSPACE, 21, KEY_BTAB, KEY_NPAGE, KEY_DOWN}

\* ---- LogExplorerTUI.run, one turn of the loop
Run(key) ==
  /\ tui.handled
  /\ tui.presses < MaxKeys
  /\ tui.current_tab = 0 => key \notin FileKeys
  /\ tui.current_tab # 1 /\ key = KEY_NPAGE => tui.scroll_positions.main < MaxScroll
  /\ LET result == handle_input(draw_status_bar(tui), key)
     IN tui' = [result.state EXCEPT !.key = Some(key),
                                    !.handled = result.handled,
                                    !.presses = @ + 1]
  /\ UNCHANGED <<catalog, det, out, inp, ts, se, sch>>

NextTui == \E key \in Keys : Run(key)

SpecTui == Init /\ [][NextTui]_vars

\* ======================================================================
\* Properties of the inference engine
\* ======================================================================
Analyzed == det.op = "analyze_lines" /\ inp # << >>

ResultOf(i) == detect(Detectors[i], catalog, inp)

\* the detectors that did not raise and met their own threshold
Passing ==
  { i \in 1..Len(Detectors) :
      /\ Detectors[i] \notin det.raising
      /\ FloatLe(get_confidence_threshold(Detectors[i]), 0,
                 ResultOf(i).confidence, ResultOf(i).ulp) }

\* the passing detectors no passing detector beats
TopPassing ==
  { i \in Passing :
      \A j \in Passing : ~FloatLt(ResultOf(i).confidence, ResultOf(i).ulp,
                                  ResultOf(j).confidence, ResultOf(j).ulp) }

Earliest(S) == CHOOSE i \in S : \A j \in S : i <= j

\* the engine handed back this detector's result: same format, confidence,
\* samples and fields, and every metadata entry the detector wrote
IsResultOf(result, r) ==
  /\ result.format_type = r.format_type
  /\ result.confidence = r.confidence
  /\ result.ulp = r.ulp
  /\ result.sample_lines = r.sample_lines
  /\ SchemaKeys(result.schema) = SchemaKeys(r.schema)
  /\ \A k \in DOMAIN r.metadata : /\ k \in DOMAIN result.metadata
                                  /\ result.metadata[k] = r.metadata[k]

\* the diagnostics the engine must hold: one per raising detector, in
\* detector order
ExpectedErrors ==
  LET idx == {i \in 1..Len(Detectors) : Detectors[i] \in det.raising}
      Nth(k) == CHOOSE i \in idx : Cardinality({j \in idx : j < i}) = k - 1
  IN [k \in 1..Cardinality(idx) |-> ErrorMsg(Detectors[Nth(k)])]

\* C1: on a non-empty input analyze_lines returns the result of the detector
\* that met its own threshold with the highest confidence, the earliest in
\* the detector list among equals.
C1_Arbitration ==
  (Analyzed /\ Passing # {}) =>
    IsResultOf(det.result, ResultOf(Earliest(TopPassing)))

\* two detectors tie at the top and the earlier one (Apache over Nginx) won
C1_Witness ==
  /\ Analyzed
  /\ Cardinality(TopPassing) >= 2
  /\ Earliest(TopPassing) > 1
  /\ det.result.format_type = "apache_combined"

\* C8: a detector that raises is caught: exactly one diagnostic naming it
\* is in metadata.detection_errors, it takes no part in the arbitration, the
\* other detectors still run, and analyze_lines returns a result.
C8_RaisingDetectorContained ==
  Analyzed =>
    /\ det.result.format_type \in LogFormat
    /\ det.result.metadata["detection_errors"] = ExpectedErrors
    /\ (det.result.format_type # "unknown")
         => \E j \in Passing : IsResultOf(det.result, ResultOf(j))
    /\ (Passing # {}) => det.result.format_type # "unknown"

\* JSONDetector raised on lines it would have won; a later detector's
\* result came back with the diagnostic attached
C8_Witness ==
  /\ Analyzed
  /\ det.raising = {"JSONDetector"}
  /\ JSONDetector_detect(catalog, inp).confidence = One
  /\ det.result.format_type = "custom_delimited"
  /\ det.result.metadata["detection_errors"] = <<ErrorMsg("JSONDetector")>>

\* C9: on a non-empty input the result is UNKNOWN exactly when no detector
\* met its threshold; it then has confidence 0, an empty schema, the first
\* five input lines as samples, every detector error and the input's length.
C9_UnknownResult ==
  Analyzed =>
    /\ (det.result.format_type = "unknown") <=> (Passing = {})
    /\ (Passing = {}) =>
         /\ det.result.confidence = Zero
         /\ det.result.schema = << >>
         /\ Len(det.result.sample_lines) = (IF Len(inp) < 5 THEN Len(inp) ELSE 5)
         /\ \A i \in 1..Len(det.result.sample_lines) :
              det.result.sample_lines[i] = inp[i]
         /\ det.result.metadata["detection_errors"] = ExpectedErrors
         /\ det.result.metadata["total_lines_analyzed"] = Len(inp)

\* more than five lines, nothing passed, one detector raised
C9_Witness ==
  /\ Analyzed
  /\ Len(inp) > 5
  /\ det.raising = {"SystemdJournalDetector"}
  /\ det.result.format_type = "unknown"
  /\ Len(det.result.sample_lines) = 5

\* C10: every detector, given no lines or only blank lines, returns
\* confidence 0.0 and an empty schema.
C10_EmptyInput ==
  (det.op = "detect" /\ \A i \in 1..Len(inp) : Strip(inp[i]) = "") =>
    /\ det.result.confidence = Zero
    /\ det.result.ulp = 0
    /\ det.result.schema = << >>

\* a detector without an early return ran on blank lines only
C10_Witness ==
  /\ det.op = "detect"
  /\ det.detector = "SyslogDetector"
  /\ Len(inp) = 2
  /\ \A i \in 1..Len(inp) : inp[i] = LineBlank

\* ======================================================================
\* Properties of the parsing engine
\* ======================================================================
PatternClasses == {"WebLogParser", "SyslogParser", "PatternBasedParser"}

\* the line handed to parse_single_line
ParsedLine == out.entries[1].raw_line[1]

\* the line is one the parser's dialect recognises: a pattern of the
\* parser's list matches it, json.loads accepts it, it holds a key=value
\* pair, it has the shape of a journal line.  A delimited parser has no
\* pattern a line could fail.
DialectMatches(parser, cat, line) ==
  CASE parser.class \in PatternClasses ->
         FirstMatch(PatternsOf(cat, parser), line) # 0
    [] parser.class = "JSONParser" -> JsonLoads(line).kind # "invalid"
    [] parser.class = "KeyValueParser" ->
         (IF parser.format_type = "ltsv" THEN LtsvFindall(line)
          ELSE KeyValuePairs(line)) # << >>
    [] parser.class = "SystemdJournalParser" ->
         \/ line \in JournalFieldPatternLines
         \/ JournalctlGroups(line) # << >>
    [] OTHER -> TRUE

\* C2: a line that matches no pattern of the parser's dialect still gives
\* exactly one entry, marked malformed, whose message field is the line when
\* the schema declares a message field.
C2_MalformedLineDegradation ==
  (out.op = "parse_single_line" /\ out.status = "ok") =>
    /\ Len(out.entries) = 1
    /\ ~DialectMatches(out.parser, catalog, ParsedLine) =>
         /\ out.entries[1].is_malformed
         /\ InSchema(out.parser.schema, "message") =>
              /\ HasField(out.entries[1], "message")
              /\ GetField(out.entries[1], "message") = <<"str", ParsedLine>>

\* the confidence max(0.1, 1 - 0.2 * n) for n errors
ConfidenceFor(n) ==
  CASE n = 0 -> <<1, 1>>
    [] n = 1 -> <<4, 5>>
    [] n = 2 -> <<3, 5>>
    [] n = 3 -> <<2, 5>>
    [] n = 4 -> <<1, 5>>
    [] OTHER -> <<1, 10>>

\* C3: every entry, fresh, returned by a parser or after any number of
\* add_parse_error calls, is malformed exactly when it has parse errors and
\* has confidence max(0.1, 1 - 0.2 * len(parse_errors)).
C3_MalformedIffErrors ==
  \A k \in 1..Len(out.entries) :
    /\ out.entries[k].is_malformed <=> (out.entries[k].parse_errors # << >>)
    /\ out.entries[k].confidence =
         ConfidenceFor(Len(out.entries[k].parse_errors))

\* an entry a parser returned has had errors added until the floor holds
C3_Witness ==
  /\ out.op = "add_parse_error"
  /\ out.entries[1].via # None
  /\ Len(out.entries[1].parse_errors) = 6
  /\ out.entries[1].confidence = <<1, 10>>

\* the positions of the input lines that are not blank
NonBlank == {i \in 1..Len(inp) : Strip(inp[i]) # ""}

NthNonBlank(k) ==
  CHOOSE i \in NonBlank : Cardinality({j \in NonBlank : j < i}) = k - 1

\* the stripped input lines at the positions S, in input order
RECURSIVE LinesAt(_, _)
LinesAt(S, i) ==
  IF i > Len(inp) THEN << >>
  ELSE IF i \in S THEN <<Strip(inp[i])>> \o LinesAt(S, i + 1)
  ELSE LinesAt(S, i + 1)

\* C4: parse_lines returns the entries in input order: the source lines of
\* an earlier entry all precede those of a later one, an entry holds its
\* source lines, and a line-by-line parser builds entry k from the k-th
\* non-blank line and numbers it with that line's position in the input.
C4_InputOrder ==
  (out.op = "parse_lines" /\ out.status = "ok") =>
    /\ \A i, j \in 1..Len(out.entries) :
         i < j => \A a \in out.entries[i].source, b \in out.entries[j].source :
                    a < b
    /\ \A k \in 1..Len(out.entries) :
         /\ out.entries[k].source # {}
         /\ out.entries[k].source \subseteq NonBlank
         /\ out.entries[k].raw_line = LinesAt(out.entries[k].source, 1)
    /\ UNION {out.entries[k].source : k \in 1..Len(out.entries)} = NonBlank
    /\ out.parser.class # "SystemdJournalParser" =>
         /\ Len(out.entries) = Cardinality(NonBlank)
         /\ \A k \in 1..Len(out.entries) :
              /\ out.entries[k].source = {NthNonBlank(k)}
              /\ out.entries[k].line_number = NthNonBlank(k)

\* two lines with a blank line between them were parsed line by line
C4_Witness ==
  /\ out.op = "parse_lines" /\ out.status = "ok"
  /\ out.parser.class = "SyslogParser"
  /\ Len(inp) = 3 /\ inp[2] = LineBlank
  /\ Len(out.entries) = 2
  /\ out.entries[2].line_number = 3

\* C5: the pattern catalog is never changed: every list holds the patterns
\* it held at startup, in the same order.
C5_CatalogImmutable == catalog = InitialCatalog

\* the pattern the detector behind a detection result settled on for a
\* line, None for a line it rejected
DetectorChoice(result, cat, line) ==
  LET At(plist, k) == IF k = 0 THEN None ELSE plist[k]
  IN CASE result.format_type \in ApacheFormats -> ApacheChoice(cat, line).pattern
       [] result.format_type \in NginxFormats -> NginxChoice(cat, line).pattern
       [] result.format_type = "syslog" ->
            At(cat["SyslogDetector"], SyslogTryFrom(cat["SyslogDetector"], line, 1))
       [] result.format_type = "python_log" ->
            At(cat["PythonLogDetector"],
               find_matching_pattern(cat["PythonLogDetector"], line,
                                     "simple_no_timestamp"))
       [] result.format_type = "basic_log"
            /\ "generic_matches" \in DOMAIN result.metadata ->
            GenericChoice(cat["GenericWebLogDetector"], line).pattern
       [] result.format_type = "basic_log" ->
            At(cat["BasicLogDetector"],
               find_matching_pattern(cat["BasicLogDetector"], line,
                                     "level_message_pattern"))

\* C6: the parser built from a detection result maps each line through the
\* pattern the detector matched it with, and sends a line the detector
\* rejected down the fallback path.
C6_SameCascade ==
  ( /\ det.op = "analyze_lines"
    /\ out.op = "parse_lines" /\ out.status = "ok"
    /\ out.parser.class \in PatternClasses ) =>
    \A k \in 1..Len(out.entries) :
      LET choice == DetectorChoice(det.result, catalog,
                                   out.entries[k].raw_line[1])
      IN IF choice = None
         THEN out.entries[k].via \in {"fallback", "simple_pattern"}
         ELSE out.entries[k].via = choice

RECURSIVE NonBlankLines(_, _)
NonBlankLines(lines, i) ==
  IF i > Len(lines) THEN << >>
  ELSE IF Strip(lines[i]) = "" THEN NonBlankLines(lines, i + 1)
  ELSE <<lines[i]>> \o NonBlankLines(lines, i + 1)

\* the input was detected as CSV, its first line being the header row, and
\* then parsed with that result
CsvParsedWithOwnResult ==
  /\ out.op = "parse_lines" /\ out.status = "ok"
  /\ det.op = "analyze_lines"
  /\ det.result.format_type = "csv"
  /\ NonBlankLines(inp, 1)[1] = LineCsvHeader

\* C11: parsing the lines a CSV result was inferred from gives one entry
\* for each data row and none for the header row, and every field the schema
\* types integer holds an integer in every entry.
C11_CsvHeaderExcluded ==
  CsvParsedWithOwnResult =>
    /\ Len(out.entries) = Len(NonBlankLines(inp, 1)) - 1
    /\ \A k \in 1..Len(out.entries) : \A i \in 1..Len(det.result.schema) :
         ( /\ det.result.schema[i].data_type = "integer"
           /\ HasField(out.entries[k], det.result.schema[i].name) )
         => GetField(out.entries[k], det.result.schema[i].name)[1] = "int"

\* the RFC3164 and RFC5424 patterns of the syslog list
RfcPatterns ==
  { catalog["SyslogDetector"][i] : i \in 1..Len(catalog["SyslogDetector"]) }

\* the number n as a field holds it, as an int or as its text
NumberField(n) == { <<"int", n>>, <<"str", ToString(n)>> }

\* C12: a line of the input that matches RFC3164 or RFC5424 with priority p,
\* parsed with the schema the syslog detector inferred from that input, has
\* the fields facility = p >> 3 and severity = p & 7.
C12_FacilitySeverity ==
  ( /\ out.op \in {"parse_lines", "parse_single_line"} /\ out.status = "ok"
    /\ det.op = "analyze_lines" /\ det.result.format_type = "syslog" ) =>
    \A k \in 1..Len(out.entries) : \A p \in RfcPatterns :
      ( /\ InSeq(out.entries[k].raw_line[1], inp)
        /\ Matches(p, out.entries[k].raw_line[1])
        /\ GroupNamed(p, out.entries[k].raw_line[1], "priority") # "" ) =>
        /\ HasField(out.entries[k], "facility")
        /\ HasField(out.entries[k], "severity")
        /\ GetField(out.entries[k], "facility") \in
             NumberField(IntOf(GroupNamed(p, out.entries[k].raw_line[1],
                                          "priority")) \div 8)
        /\ GetField(out.entries[k], "severity") \in
             NumberField(IntOf(GroupNamed(p, out.entries[k].raw_line[1],
                                          "priority")) % 8)

\* ---- timestamp recognition
Returned == ts.op = "detect_timestamp" /\ ts.status = "ok"

\* C13: detect_timestamp returns its results sorted by confidence
\* descending, and results of equal confidence in the order of their match
\* start offsets, the earliest first
C13_SortedByConfidenceThenOffset ==
  Returned =>
    \A i, j \in 1..Len(ts.results) :
       i < j =>
         /\ RLe(ts.results[j].confidence, ts.results[i].confidence)
         /\ ts.results[i].confidence = ts.results[j].confidence
              => ts.results[i].start <= ts.results[j].start

Accepted(m) == \E i \in 1..Len(ts.results) : ts.results[i] = TimestampResult(m)

Disjoint(a, b) == a.end <= b.start \/ b.end <= a.start

C15_TimestampFailureRecorded ==
  ( /\ out.op \in {"parse_lines", "parse_single_line"} /\ out.status = "ok" ) =>
    \A k \in 1..Len(out.entries) : \A i \in 1..Len(out.parser.schema) :
      ( /\ out.parser.schema[i].is_timestamp
        /\ HasField(out.entries[k], out.parser.schema[i].name)
        /\ out.entries[k].timestamp = None
        /\ GetField(out.entries[k], out.parser.schema[i].name)[1] = "str"
        /\ ~TsDetect(GetField(out.entries[k], out.parser.schema[i].name)[2]) )
      => InSeq(<<"Failed to parse timestamp",
                 GetField(out.entries[k], out.parser.schema[i].name)[2]>>,
               out.entries[k].parse_errors)

\* the parser, had field i of its schema been declared a string
Retyped(parser, i) == [parser EXCEPT !.schema[i].data_type = "string"]

\* C16: an entry in which a field declared integer or float holds a string
\* (the coercion failed) is the entry the same line gives when the field is
\* declared a string: the raw string unmodified, and parse_errors,
\* is_malformed and confidence as they would be without the coercion
C16_FailedCoercionSilent ==
  ( /\ out.op \in {"parse_lines", "parse_single_line"} /\ out.status = "ok"
    /\ out.parser.class # "SystemdJournalParser" ) =>
    \A k \in 1..Len(out.entries) : \A i \in 1..Len(out.parser.schema) :
      ( /\ out.parser.schema[i].data_type \in {"integer", "float"}
        /\ HasField(out.entries[k], out.parser.schema[i].name)
        /\ GetField(out.entries[k], out.parser.schema[i].name)[1] = "str" )
      => out.entries[k] =
           [ parse_line(catalog, Retyped(out.parser, i), out.entries[k].raw_line[1],
                        out.entries[k].line_number)
             EXCEPT !.source = out.entries[k].source ]

\* the header row parsed under the schema of its own data rows: age is
\* declared integer and holds "age", and nothing is recorded
C16_Witness_HeaderCellKept ==
  /\ out.op = "parse_lines" /\ out.status = "ok"
  /\ \E k \in 1..Len(out.entries) : \E i \in 1..Len(out.parser.schema) :
        /\ out.parser.schema[i].data_type = "integer"
        /\ out.parser.schema[i].name = "age"
        /\ HasField(out.entries[k], "age")
        /\ GetField(out.entries[k], "age") = <<"str", "age">>
        /\ out.entries[k].parse_errors = << >>
        /\ ~out.entries[k].is_malformed
        /\ out.entries[k].confidence = One

\* the first n elements of a sequence, all of it when it is shorter
FirstN(s, n) == [ k \in 1..(IF Len(s) < n THEN Len(s) ELSE n) |-> s[k] ]

\* C17: preprocess_lines(lines, max_lines = N) returns the first N
\* non-blank lines of the input, trimmed and in order, however many blank
\* lines precede or separate them
C17_FirstNonBlankLines ==
  det.op = "preprocess_lines" =>
    det.result = [ k \in 1..Len(FirstN(NonBlankLines(inp, 1), det.max_lines)) |->
                     Strip(FirstN(NonBlankLines(inp, 1), det.max_lines)[k]) ]

SampleCount(result) ==
  IF result.sample_lines # << >> THEN Len(result.sample_lines) ELSE 1

\* C18: in the result analyze_lines selects, every field's confidence is
\* min(1, min(1, frequency / sample lines) + 0.2 for a timestamp field
\* + 0.1 for a data type other than string)
C18_FieldConfidence ==
  ( det.op = "analyze_lines" /\ det.result.format_type # "unknown" ) =>
    \A i \in 1..Len(det.result.schema) :
      det.result.schema[i].confidence =
        RMin(One,
             RAdd(RAdd(RMin(One, Rat(det.result.schema[i].frequency,
                                     SampleCount(det.result))),
                       IF det.result.schema[i].is_timestamp THEN <<1, 5>> ELSE Zero),
                  IF det.result.schema[i].data_type # "string"
                  THEN <<1, 10>> ELSE Zero))

RECURSIVE SumOver(_, _)
SumOver(f, keys) ==
  IF keys = {} THEN 0
  ELSE LET key == CHOOSE x \in keys : TRUE
       IN f[key] + SumOver(f, keys \ {key})

RECURSIVE TotalErrors(_, _)
TotalErrors(entries, k) ==
  IF k > Len(entries) THEN 0
  ELSE Len(entries[k].parse_errors) + TotalErrors(entries, k + 1)

StatisticsKeys == {"field_extraction_rates", "error_types", "average_confidence"}

\* C19: every ParseResult of LogParsingEngine.parse_lines, that of an
\* empty or all-blank input too, has the keys field_extraction_rates,
\* error_types and average_confidence in parse_statistics; error_types
\* sums to the number of parse errors of all entries, and each
\* extraction_rate is total_extracted over the number of entries
C19_ParseStatistics ==
  ( out.op = "parse_lines" /\ out.status = "ok" ) =>
    /\ StatisticsKeys \subseteq DOMAIN out.parse_statistics
    /\ SumOver(out.parse_statistics.error_types,
               DOMAIN out.parse_statistics.error_types)
         = TotalErrors(out.entries, 1)
    /\ \A i \in 1..Len(out.parse_statistics.field_extraction_rates) :
          out.parse_statistics.field_extraction_rates[i].extraction_rate
            = Rat(out.parse_statistics.field_extraction_rates[i].total_extracted,
                  Len(out.entries))

Validated == out.op = "validate_parsing_capability"

\* min(1, confidence + min(0.2, 0.1 * timestamp fields)
\*           + min(0.3, 0.05 * fields) - 0.1 if fewer than 3 sample lines),
\* in tenths of tenths: all terms over the denominator 100 * d
ClaimedQuality(r) ==
  LET ts_bonus == IF TimestampFields(r.schema) >= 2 THEN 20
                  ELSE 10 * TimestampFields(r.schema)
      f_bonus == IF Len(r.schema) >= 6 THEN 30 ELSE 5 * Len(r.schema)
      penalty == IF Len(r.sample_lines) < 3 THEN 10 ELSE 0
  IN RMin(One, Rat(100 * r.confidence[1]
                     + (ts_bonus + f_bonus - penalty) * r.confidence[2],
                   100 * r.confidence[2]))

\* C20: validate_parsing_capability(r) says can_parse exactly when
\* create_parser(r) returns a parser; the call creates no parser (the
\* pattern catalog, which a WebLogParser's construction extends, stays as
\* it is), parses nothing and leaves r as it was; and when can_parse, the
\* estimated quality is the claimed sum capped at 1
C20_ValidateParsingCapability ==
  /\ [](Validated =>
          /\ out.validation.can_parse
               <=> create_parser(catalog, det.result).status = "ok"
          /\ out.entries = << >>
          /\ out.parser = NoParser
          /\ out.validation.can_parse
               => out.validation.estimated_parse_quality = ClaimedQuality(det.result))
  /\ [][(~Validated /\ out'.op = "validate_parsing_capability")
          => (catalog' = catalog /\ det' = det)]_vars

\* a result for a web format, on fewer than 3 sample lines, validated:
\* creating its parser would have extended the catalog
C20_Witness_WebFormatValidated ==
  /\ Validated
  /\ out.validation.can_parse
  /\ create_parser(catalog, det.result).catalog # catalog
  /\ Len(det.result.sample_lines) < 3
  /\ RLt(out.validation.estimated_parse_quality, One)

\* ======================================================================
\* Search, timestamp confidence, detectors' counts, the search form
\* ======================================================================
Positions(entries) == 0..(Len(entries) - 1)

\* the operator of a filter applied to a target and a value
Satisfies(operator, target, value) ==
  IF operator = "contains" THEN Contains(target, value)
  ELSE IF operator = "equals" THEN target = value
  ELSE ~ReError(target) /\ re_search(target, value, FALSE)

\* the entry at position i has a value of the filtered field, and that value
\* (its own, in the case the filter asks for) satisfies the operator
OwnValueSatisfies(entries, i, f) ==
  /\ f.field_name \in DOMAIN entries[i + 1].fields
  /\ entries[i + 1].fields[f.field_name] # Nothing
  /\ LET own == entries[i + 1].fields[f.field_name][1]
     IN IF f.case_sensitive
        THEN Satisfies(f.operator, f.value, own)
        ELSE Satisfies(f.operator, lower(f.value), lower(own))

Searched == se.op = "search"

OneFilterOnly ==
  /\ Searched
  /\ se.query[1] \in SingleFilterQueries
  /\ se.query[1].filters[1].operator \in {"contains", "equals", "regex"}

Selected == { se.result.matches[k] : k \in 1..Len(se.result.matches) }

\* C21: a search with one contains, equals or regex filter selects exactly
\* the indexed entries whose own value of the field satisfies the operator:
\* original case against the unmodified target when case_sensitive, lower
\* case against the lower-cased target when not.
C21_CaseSensitivity ==
  OneFilterOnly =>
    /\ se.result.status = "ok"
    /\ Selected = { i \in Positions(se.entries) :
                      OwnValueSatisfies(se.entries, i, se.query[1].filters[1]) }

\* the bounds of a time filter: a relative filter ends now
EndOf(time_filter) ==
  IF Truthy(time_filter.last_hours) \/ Truthy(time_filter.last_minutes)
  THEN Some(Now) ELSE time_filter.end_time

StartOf(time_filter) ==
  IF Truthy(time_filter.last_hours) THEN Some(Now - 60 * time_filter.last_hours[1])
  ELSE IF Truthy(time_filter.last_minutes) THEN Some(Now - time_filter.last_minutes[1])
  ELSE time_filter.start_time

SatisfiesTime(entry, time_filter) ==
  \/ StartOf(time_filter) = Nothing /\ EndOf(time_filter) = Nothing
  \/ /\ entry.timestamp # Nothing
     /\ StartOf(time_filter) # Nothing => StartOf(time_filter)[1] <= entry.timestamp[1]
     /\ EndOf(time_filter) # Nothing => entry.timestamp[1] <= EndOf(time_filter)[1]

\* the positions of the entries that satisfy all of a query
Matching(entries, query) ==
  { i \in Positions(entries) :
      /\ query.text # << >> => i \in text_search(entries, query.text)
      /\ \A k \in 1..Len(query.filters) : i \in apply_filter(entries, query.filters[k])
      /\ query.time_filter # Nothing => SatisfiesTime(entries[i + 1], query.time_filter[1]) }

\* positions offset .. offset+limit-1 of a list, all from offset on when
\* there is no limit
Page(list, offset, limit) ==
  LET rest == IF offset >= Len(list) THEN 0 ELSE Len(list) - offset
      n    == IF limit # Nothing /\ limit[1] < rest THEN limit[1] ELSE rest
  IN [ k \in 1..n |-> list[offset + k] ]

Increasing(list) == \A a, b \in 1..Len(list) : a < b => list[a] < list[b]

\* C22: total_matches is the number of indexed entries that satisfy the
\* text query, every filter and the time filter, whatever limit and offset
\* are; the entries returned are those at positions offset .. offset+limit-1
\* of the matching entries in index order, none twice.
C22_Pagination ==
  (Searched /\ se.result.status = "ok") =>
    LET matching == Matching(se.entries, se.query[1])
    IN /\ se.result.total_matches = Cardinality(matching)
       /\ se.result.matches =
            Page(SortedList(matching), se.query[1].offset[1], se.query[1].limit)
       /\ Increasing(se.result.matches)

Scored == ts.op = "calculate_final_confidence"

\* the confidence before the temporal scale: base and the four bonuses
BeforeScale(base_confidence, timestamp_str, pattern_info) ==
  RPlus(RPlus(RPlus(RPlus(base_confidence, specificity_bonus(pattern_info.specificity)),
                    IF pattern_info.has_timezone THEN <<3, 100>> ELSE Zero),
              IF pattern_info.has_microseconds /\ timestamp_str.has_dot
              THEN <<2, 100>> ELSE Zero),
        IF StartsWithUs(pattern_info.name) THEN <<-5, 100>> ELSE Zero)

\* what is added after the scale: text length and four-digit year
AfterScale(timestamp_str) ==
  RPlus(IF 19 <= timestamp_str.length /\ timestamp_str.length <= 35 THEN <<2, 100>>
        ELSE IF timestamp_str.length < 10 THEN <<-5, 100>> ELSE Zero,
        IF timestamp_str.has_year THEN <<1, 100>> ELSE Zero)

ClaimedFactor(time_diff) ==
  IF time_diff > FiftyYears THEN <<6, 10>>
  ELSE IF time_diff > TenYears THEN <<8, 10>>
  ELSE One

\* C23: the final confidence is the confidence before the scale times the
\* temporal factor, plus the later adjustments, clamped; the factor is 0.6
\* for an instant more than 50 years from now, 0.8 for one more than 10 and
\* at most 50 years from now, and 1 otherwise.
C23_TemporalFactor ==
  Scored =>
    ts.confidence =
      Clamp(RPlus(RMul(BeforeScale(ts.base_confidence, ts.timestamp_str, ts.pattern_info),
                       ClaimedFactor(ts.time_diff)),
                  AfterScale(ts.timestamp_str)))

DetectedBy(name) == det.op = "detect" /\ det.detector = name

\* the sampled lines that parse as a JSON object
JsonObjectLines(processed) ==
  { i \in 1..Len(processed) : JsonLoads(processed[i]).kind = "object" }

\* C24: JSONDetector counts a sampled line only if it parses as a JSON
\* object: total_json_lines is the number of such lines and the confidence
\* is that number over the number of sampled lines.
C24_JsonObjectsOnly ==
  (DetectedBy("JSONDetector") /\ preprocess_lines(inp, 50) # << >>) =>
    LET processed == preprocess_lines(inp, 50)
    IN /\ det.result.metadata["total_json_lines"] = Cardinality(JsonObjectLines(processed))
       /\ det.result.confidence = Rat(Cardinality(JsonObjectLines(processed)), Len(processed))

\* the match count of the variant a format type names
CountOf(format_type, metadata) ==
  IF format_type = "apache_combined" THEN metadata["combined_matches"]
  ELSE IF format_type = "apache_extended" THEN metadata["extended_matches"]
  ELSE metadata["common_matches"]

ApacheMatched ==
  /\ DetectedBy("ApacheDetector")
  /\ preprocess_lines(inp, 100) # << >>
  /\ det.result.metadata["common_matches"] + det.result.metadata["combined_matches"]
       + det.result.metadata["extended_matches"] >= 1

\* C25: when at least one sampled line matched, ApacheDetector reports a
\* subtype whose variant matched at least as many lines as each of the
\* other two.
C25_ApacheSubtypeMostMatches ==
  ApacheMatched =>
    /\ det.result.format_type \in {"apache_common", "apache_combined", "apache_extended"}
    /\ \A other \in {"apache_common", "apache_combined", "apache_extended"} :
          CountOf(det.result.format_type, det.result.metadata)
            >= CountOf(other, det.result.metadata)

\* a line of the journal's NAME=value shape
IsFieldLine(line) ==
  /\ Strip(line) \in LinesWithEquals
  /\ SplitEquals(Strip(line))[1] \in ValidJournalKeys

\* the field lines that open a group: no field line between them and the
\* blank line (or the start) before them
GroupStarts(lines) ==
  { i \in 1..Len(lines) :
      /\ IsFieldLine(lines[i])
      /\ \A j \in 1..(i - 1) :
            IsFieldLine(lines[j]) => \E k \in (j + 1)..(i - 1) : Strip(lines[k]) = "" }

\* C26: SystemdJournalDetector recognises a sample only if every non-blank
\* sampled line is a NAME=value field line: with a non-blank line that is
\* not one, the confidence is below the detector's threshold; and
\* journal_entries is the number of blank-line-delimited groups of field
\* lines.
C26_JournalEveryLineMatches ==
  DetectedBy("SystemdJournalDetector") =>
    /\ (\E i \in 1..Len(inp) : Strip(inp[i]) # "" /\ ~IsFieldLine(inp[i]))
         => RLt(det.result.confidence, get_confidence_threshold("SystemdJournalDetector"))
    /\ det.result.metadata["journal_entries"] = Cardinality(GroupStarts(inp))

NoDuplicates(s) == \A a, b \in 1..Len(s) : a # b => s[a] # s[b]

FrequencyIn(fields, name) ==
  IF InSchema(fields, name) THEN fields[FieldIndex(fields, name)].frequency ELSE 0

\* C27: in every schema, however it was built, each field holds at most 10
\* sample values, none twice, and at least as many counted occurrences as
\* sample values; and no operation on a schema lowers a field's frequency.
C27_SampleCapAndFrequency ==
  /\ [](\A i \in 1..Len(sch.fields) :
          /\ Len(sch.fields[i].sample_values) <= 10
          /\ NoDuplicates(sch.fields[i].sample_values)
          /\ sch.fields[i].frequency >= Len(sch.fields[i].sample_values))
  /\ [][\A i \in 1..Len(sch.fields) :
          InSchema(sch'.fields, sch.fields[i].name) =>
            FrequencyIn(sch'.fields, sch.fields[i].name) >= sch.fields[i].frequency]_vars

\* a field at the cap that was handed more values than it kept
C27_Witness_CapReached ==
  /\ sch.op = "update_field_info"
  /\ \E i \in 1..Len(sch.fields) :
        /\ Len(sch.fields[i].sample_values) = 10
        /\ sch.fields[i].frequency = 12

\* a match no other match of the text overlaps
Alone(m) == \A o \in ts.text \ {m} : Disjoint(m, o)

\* C28: detect_timestamp raises for no text: it returns, a match whose
\* parse failed is not among the results, and a parsed match that nothing
\* overlaps is, also when the results mix aware and naive instants of equal
\* confidence.
C28_NeverRaises ==
  ts.op = "detect_timestamp" =>
    /\ ts.status = "ok"
    /\ \A m \in ts.text :
          /\ m.parsed # "datetime" => ~Accepted(m)
          /\ (m.parsed = "datetime" /\ Alone(m)) => Accepted(m)

\* ---- C29 ------------------------------------------------------------
Printable(key) == 32 <= key /\ key <= 126

InInputMode == tui.current_tab = 1 /\ tui.search_form.input_mode

\* what the claim says of one key read in input mode on the Search tab
KeyGoesToForm(key) ==
  /\ Printable(key) =>
       /\ tui'.search_form.input_buffer = Append(tui.search_form.input_buffer, key)
       /\ tui'.handled
  /\ ~tui'.search_form.input_mode =>
       \/ /\ key = 27
          /\ tui'.search_form.fields = tui.search_form.fields
       \/ /\ key \in {10, 13}
          /\ tui'.search_form.fields =
               [tui.search_form.fields EXCEPT ![FieldKey(tui.search_form)] =
                  tui.search_form.input_buffer]

\* C29: while the search form is in input mode on the Search tab, each
\* printable key (q included) is appended to the input buffer and
\* handle_input returns True; only Escape (field unchanged) or Enter (buffer
\* saved into the current field) leaves input mode.
C29_InputModeKeys ==
  [][InInputMode /\ tui'.presses = tui.presses + 1 => KeyGoesToForm(tui'.key[1])]_vars

\* ---- C30 ------------------------------------------------------------
\* success_rate == 1: successfully_parsed / total_lines when total_lines > 0
FullSuccessRate ==
  out.total_lines > 0 /\ out.successfully_parsed = out.total_lines

\* C30: every ParseResult that parse_lines returns, of the line-by-line
\* parsers and of the systemd-journal parser alike, has
\* successfully_parsed + malformed_lines = len(entries) = total_lines, so
\* success_rate is 1 exactly when no returned entry is malformed and
\* total_lines > 0.
C30_CountsAddUp ==
  (out.op = "parse_lines" /\ out.status = "ok") =>
    /\ out.successfully_parsed + out.malformed_lines = Len(out.entries)
    /\ Len(out.entries) = out.total_lines
    /\ FullSuccessRate <=>
         /\ out.total_lines > 0
         /\ \A k \in 1..Len(out.entries) : ~out.entries[k].is_malformed
====
